---- MODULE Spec2Model ----
(***************************************************************************)
(* Model of the switch-machine monitoring core of hcifuentes1/dashnew:     *)
(*   - models/anomaly_detector.py : AnomalyDetector (training, detection,  *)
(*     model store, health scoring)                                        *)
(*   - core/simulator.py          : MachineSimulator (start/stop, loop,    *)
(*     wear, maintenance)                                                  *)
(*                                                                         *)
(* Conventions.                                                            *)
(*   Strings that the code builds with f"{a}_{b}" and takes apart with     *)
(*   split('_') are sequences of underscore-free tokens: joining with '_'  *)
(*   is \o, split('_') is the sequence itself.  A model file name drops    *)
(*   the ".joblib" extension every file of MODEL_DIR carries.              *)
(*   The detector's clock counts whole hours, the simulator's whole        *)
(*   seconds.  Health scores are in percent, electrical health in tenths   *)
(*   and overall health in hundredths of a percent.  Wear is kept in       *)
(*   units of 1/WearScale, transition durations in tenths of a second.     *)
(***************************************************************************)
EXTENDS Integers, Sequences, FiniteSets, TLC

VARIABLES
    \* ---- AnomalyDetector and its collaborators (store, model directory)
    asset,          \* the machine id the calls of this behaviour are about
    rows,           \* store: row counts per signal family inside the training window
    now,            \* wall clock, hours
    models,         \* self.models       : key -> model
    scalers,        \* self.scalers      : key -> scaler
    last_trained,   \* self.last_trained : key -> hour
    files,          \* MODEL_DIR         : file name -> dumped object
    snapshots,      \* health_status table: number of rows appended
    res,            \* what the last call returned (and what it was)
    \* ---- health scoring on its own (pure function of three anomaly counts)
    sc_in, sc_out,
    \* ---- MachineSimulator
    running,        \* self.running
    threads,        \* the loop threads ever started: thread id -> position in _simulation_loop
    thread,         \* self.thread: id of the thread start() created last (0: None)
    caller,         \* the caller of start()/stop(): "idle" or "joining" (inside join)
    position,       \* current_state['position']
    transition,     \* current_state['transition_in_progress' / '_start_time' / '_target']
    phase_currents, \* current_state['phase_currents'], hundredths of an ampere
    wear,           \* behavior['accumulated_wear'], units of 1/WearScale
    last_maintenance, \* behavior['last_maintenance'], a tick stamp
    ticks,          \* wall clock of the simulator, seconds
    maint,          \* what the last simulate_maintenance call saw and did
    behavior,       \* behavior['degradation_rate'], behavior['fault_probability']
    phase_cfg,      \* config['current_phases'][phase], the same for the three phases
    last_fault,     \* the fault _simulate_faults injected last, and how many it injected
    \* ---- DatabaseManager: the alerts table
    alerts,         \* the rows of the table, in the order of their ids 1, 2, ...
    query,          \* what the last save_alert / acknowledge_alert / get_alerts returned
    \* ---- SimulationManager
    simulators,     \* self.simulators: per machine its running flag, loop threads, progress
    \* ---- callers of one AnomalyDetector, each in a thread of its own
    workers,        \* where each caller is inside detect_phase_current_anomalies
    \* ---- what the simulator leaves in the store
    position_transitions, \* the rows save_position_transition inserted, oldest first
    measured,       \* the fate of the last _save_measurements, and the largest phase
                    \* current held at the end of a tick of the transition in progress
    \* ---- the wear step of the loop and simulate_maintenance, statement by statement
    steps           \* where the two threads are and the values they have read

detVars == <<asset, rows, now, models, scalers, last_trained, files, snapshots, res>>
scoreVars == <<sc_in, sc_out>>
simVars == <<running, threads, thread, caller, position, transition, phase_currents, wear,
             last_maintenance, ticks, maint>>
auxVars == <<behavior, phase_cfg, last_fault, alerts, query, simulators, workers>>
storeVars == <<position_transitions, measured, steps>>
vars == <<detVars, scoreVars, simVars, auxVars, storeVars>>

(***************************************************************************)
(* Configuration (config/config.py, config/maintenance_config.py)          *)
(***************************************************************************)
VIM_11_21 == <<"VIM", "11", "21">>
SP_13_23 == <<"SP", "13", "23">>
MONITORING_PARAMS == {VIM_11_21, SP_13_23}

ctrl_1 == <<"ctrl", "1">>
ctrl_2 == <<"ctrl", "2">>
\* The controllers the store holds rows for, in the order the simulator writes them.
Controllers == <<ctrl_1, ctrl_2>>
ControllerSet == {Controllers[i] : i \in 1..Len(Controllers)}

normal_to_reverse == <<"normal", "to", "reverse">>
reverse_to_normal == <<"reverse", "to", "normal">>
TransitionTypes == <<normal_to_reverse, reverse_to_normal>>
TransitionTypeSet == {TransitionTypes[i] : i \in 1..Len(TransitionTypes)}

model_update_interval == 24
min_samples == 1000
MinControllerRows == 500
MinTransitionRows == 30
MinDirectionRows == 15
RecentLimit == 100
TransitionRecentLimit == 50
MinRecentRows == 10
MinRecentTransitions == 5
VarianceMinRows == 50
VarianceWindow == 10

\* transition_time[...]['nominal'] of MONITORING_PARAMS, tenths of a second
NominalTransitionTime == 60
increase_warning == 20
increase_critical == 40
trend_window == 10
dropout_warning == 2
dropout_critical == 4
stability_window == 50

(***************************************************************************)
(* Small helpers                                                           *)
(***************************************************************************)
Min(a, b) == IF a < b THEN a ELSE b

\* d[k] = v, as Python's dict assignment
Put(d, k, v) == [x \in DOMAIN d \cup {k} |-> IF x = k THEN v ELSE d[x]]

EmptyDict == [x \in {} |-> 0]

RECURSIVE SumOver(_, _)
SumOver(f, S) ==
    IF S = {} THEN 0
    ELSE LET x == CHOOSE y \in S : TRUE IN f[x] + SumOver(f, S \ {x})

(***************************************************************************)
(* AnomalyDetector: keys, file names, the in-memory and on-disk model store *)
(***************************************************************************)
\* What a fit produces.  IsolationForest is seeded (random_state=42) and DBSCAN is
\* deterministic, so a fitted object is given by its kind, the key it was fitted
\* for and the rows it was fitted on.
Fitted(kind, key, n) == [kind |-> kind, key |-> key, n |-> n]

PhaseKey(m) == m \o <<"phase", "current">>
ControllerBaseKey(m) == m \o <<"controller">>
ControllerKey(m, c) == ControllerBaseKey(m) \o c
TransitionBaseKey(m) == m \o <<"transition">>
TransitionKey(m, t) == TransitionBaseKey(m) \o t

PhaseFile(m, kind) == m \o <<"phase", "current", kind>>
ControllerFile(m, c, kind) == m \o c \o <<kind>>
TransitionFile(m, t, kind) == m \o <<"transition">> \o t \o <<kind>>

\* An exception raised inside a call is an input of the call: where it is raised
\* (stage) and, inside a loop, for which controller or direction (sub).
\* and, inside get_machine_health_status, in the detection of which family (fam).
NoFault == [stage |-> "none", sub |-> <<>>, fam |-> "none"]
FaultFor(fault, fam) == IF fault.fam = fam THEN fault ELSE NoFault
TrainStages == {"read", "fit", "dump_model", "dump_scaler"}

Detector(m, s, l, f) == [models |-> m, scalers |-> s, last_trained |-> l, files |-> f]

\* A variant of the guard with the comparison turned around
RecentlyTrainedInverted(D, key, force, t) ==
    /\ key \in DOMAIN D.last_trained
    /\ ~force
    /\ (t - D.last_trained[key]) > model_update_interval

\* The guard the three train_* methods open with: skip when trained less than
\* model_update_interval hours ago and not forced.
RecentlyTrained(D, key, force, t) ==
    /\ key \in DOMAIN D.last_trained
    /\ ~force
    /\ (t - D.last_trained[key]) < model_update_interval

\* self.models[key] = model; self.scalers[key] = scaler
Remember(D, key, n) ==
    [D EXCEPT !.models = Put(@, key, Fitted("model", key, n)),
              !.scalers = Put(@, key, Fitted("scaler", key, n))]

\* The two joblib.dump calls that follow; a failing dump leaves no file and
\* raises, and the method's except clause returns False.
Dump(D, key, n, fmodel, fscaler, stage) ==
    IF stage = "dump_model" THEN [D |-> D, ret |-> FALSE]
    ELSE IF stage = "dump_scaler"
         THEN [D |-> [D EXCEPT !.files = Put(@, fmodel, Fitted("model", key, n))],
               ret |-> FALSE]
         ELSE [D |-> [D EXCEPT !.files = Put(Put(@, fmodel, Fitted("model", key, n)),
                                             fscaler, Fitted("scaler", key, n))],
               ret |-> TRUE]

\* self.last_trained[key] = datetime.now(); return True -- unless the loop raised
Trained(l, key, t) ==
    IF l.ret THEN [D |-> [l.D EXCEPT !.last_trained = Put(@, key, t)], ret |-> TRUE]
    ELSE l

(***************************************************************************)
(* train_phase_current_model(machine_id, force)                            *)
(***************************************************************************)
\* A variant that fits whatever the number of rows
TrainPhaseAnyRows(D, m, force, t, R, fault) ==
    IF RecentlyTrained(D, PhaseKey(m), force, t) THEN [D |-> D, ret |-> FALSE]
    ELSE Dump([Remember(D, PhaseKey(m), R.phase)
                   EXCEPT !.last_trained = Put(@, PhaseKey(m), t)],
              PhaseKey(m), R.phase, PhaseFile(m, "model"), PhaseFile(m, "scaler"),
              fault.stage)

train_phase_current_model(D, m, force, t, R, fault) ==
    IF RecentlyTrained(D, PhaseKey(m), force, t) THEN [D |-> D, ret |-> FALSE]
    ELSE IF fault.stage = "read" THEN [D |-> D, ret |-> FALSE]
    ELSE IF R.phase < min_samples THEN [D |-> D, ret |-> FALSE]
    ELSE IF fault.stage = "fit" THEN [D |-> D, ret |-> FALSE]
    ELSE Dump([Remember(D, PhaseKey(m), R.phase)
                   EXCEPT !.last_trained = Put(@, PhaseKey(m), t)],
              PhaseKey(m), R.phase, PhaseFile(m, "model"), PhaseFile(m, "scaler"),
              fault.stage)

(***************************************************************************)
(* train_controller_model(machine_id, force)                               *)
(***************************************************************************)
\* The loop over df['controller_id'].unique(), from its i-th controller on.
RECURSIVE ControllerLoop(_, _, _, _, _, _)
ControllerNext(d, m, cs, i, R, fault) ==
    IF d.ret THEN ControllerLoop(d.D, m, cs, i + 1, R, fault) ELSE d

ControllerLoop(D, m, cs, i, R, fault) ==
    IF i > Len(cs) THEN [D |-> D, ret |-> TRUE]
    ELSE IF R.ctrl[cs[i]] < MinControllerRows
         THEN ControllerLoop(D, m, cs, i + 1, R, fault)
    ELSE IF fault.sub = cs[i] /\ fault.stage = "fit" THEN [D |-> D, ret |-> FALSE]
    ELSE ControllerNext(Dump(Remember(D, ControllerKey(m, cs[i]), R.ctrl[cs[i]]),
                             ControllerKey(m, cs[i]), R.ctrl[cs[i]],
                             ControllerFile(m, cs[i], "model"),
                             ControllerFile(m, cs[i], "scaler"),
                             IF fault.sub = cs[i] THEN fault.stage ELSE "none"),
                        m, cs, i, R, fault)

\* The controllers with at least one row, in the order of their first row.
StoredControllers(R) == SelectSeq(Controllers, LAMBDA c : R.ctrl[c] > 0)

train_controller_model(D, m, force, t, R, fault) ==
    IF RecentlyTrained(D, ControllerBaseKey(m), force, t) THEN [D |-> D, ret |-> FALSE]
    ELSE IF fault.stage = "read" THEN [D |-> D, ret |-> FALSE]
    ELSE IF SumOver(R.ctrl, ControllerSet) < min_samples THEN [D |-> D, ret |-> FALSE]
    ELSE Trained(ControllerLoop(D, m, StoredControllers(R), 1, R, fault),
                 ControllerBaseKey(m), t)

(***************************************************************************)
(* train_transition_model(machine_id, force)                               *)
(***************************************************************************)
RECURSIVE TransitionLoop(_, _, _, _, _, _)
TransitionNext(d, m, ts, i, R, fault) ==
    IF d.ret THEN TransitionLoop(d.D, m, ts, i + 1, R, fault) ELSE d

TransitionLoop(D, m, ts, i, R, fault) ==
    IF i > Len(ts) THEN [D |-> D, ret |-> TRUE]
    ELSE IF R.trans[ts[i]] < MinDirectionRows
         THEN TransitionLoop(D, m, ts, i + 1, R, fault)
    ELSE IF fault.sub = ts[i] /\ fault.stage = "fit" THEN [D |-> D, ret |-> FALSE]
    ELSE TransitionNext(Dump(Remember(D, TransitionKey(m, ts[i]), R.trans[ts[i]]),
                             TransitionKey(m, ts[i]), R.trans[ts[i]],
                             TransitionFile(m, ts[i], "model"),
                             TransitionFile(m, ts[i], "scaler"),
                             IF fault.sub = ts[i] THEN fault.stage ELSE "none"),
                        m, ts, i, R, fault)

train_transition_model(D, m, force, t, R, fault) ==
    IF RecentlyTrained(D, TransitionBaseKey(m), force, t) THEN [D |-> D, ret |-> FALSE]
    ELSE IF fault.stage = "read" THEN [D |-> D, ret |-> FALSE]
    ELSE IF SumOver(R.trans, TransitionTypeSet) < MinTransitionRows
         THEN [D |-> D, ret |-> FALSE]
    ELSE Trained(TransitionLoop(D, m, TransitionTypes, 1, R, fault),
                 TransitionBaseKey(m), t)

(***************************************************************************)
(* _load_models: what a fresh AnomalyDetector restores from MODEL_DIR      *)
(***************************************************************************)
\* '_scaler' in model_file, '_model' in model_file: the word follows an underscore
HasWord(f, w) == \E i \in 2..Len(f) : f[i] = w
IsScalerFile(f) == HasWord(f, "scaler")
IsModelFile(f) == ~IsScalerFile(f) /\ HasWord(f, "model")

\* machine_id = model_file.split('_')[0]; measurement_type = model_file.split('_')[1]
\* key = f"{machine_id}_{measurement_type}"
LoadKey(f) == <<f[1], f[2]>>

\* os.listdir gives the files in no particular order and a later file overwrites
\* an earlier one under the same key: each key ends with one of its files.
IsKind(f, kind) == IF kind = "scaler" THEN IsScalerFile(f) ELSE IsModelFile(f)

LoadedDicts(F, kind) ==
    LET fs == {f \in DOMAIN F : IsKind(f, kind)}
        ks == {LoadKey(f) : f \in fs}
        objs == {F[f] : f \in fs}
    IN  {d \in [ks -> objs] : \A k \in ks : \E f \in fs : LoadKey(f) = k /\ d[k] = F[f]}

\* AnomalyDetector(): empty dictionaries, then _load_models()
NewDetectors(F) ==
    {Detector(m, s, EmptyDict, F) : m \in LoadedDicts(F, "model"),
                                     s \in LoadedDicts(F, "scaler")}

(***************************************************************************)
(* Detection results                                                       *)
(***************************************************************************)
Anomaly(type, severity) == [type |-> type, severity |-> severity]
Rep(a, k) == [i \in 1..k |-> a]

NoModel == [status |-> "no_model", anomalies |-> <<>>]
InsufficientData == [status |-> "insufficient_data", anomalies |-> <<>>]
Error == [status |-> "error", anomalies |-> <<>>]
Ok(anomalies) == [status |-> "ok", anomalies |-> anomalies]

TrainFault(fault) == IF fault.stage \in TrainStages THEN fault ELSE NoFault

HasModel(D, key) == key \in DOMAIN D.models /\ key \in DOMAIN D.scalers

(***************************************************************************)
(* detect_phase_current_anomalies(machine_id, recent_data)                 *)
(*   given : the caller passed recent_data (of data.n rows)                *)
(*   data  : what the rows hold, as far as the detection reads it:         *)
(*           n        rows (caller's frame; a store read takes LIMIT 100)  *)
(*           flagged  rows the IsolationForest predicts -1                 *)
(*           head     the phase values (a, b, c), in hundredths of an      *)
(*                    ampere, of the first rows that are not balanced      *)
(*           hv       enumerate-indices i of the rolling windows whose     *)
(*                    variance is over variance_warning                    *)
(***************************************************************************)
\* MAINTENANCE_THRESHOLDS['phase_current']['imbalance_warning'], percent, and the
\* 0.5 A of "if max(values) > 0.5", in hundredths of an ampere
imbalance_warning == 10
SignificantCurrent == 50

\* lines 405-411: imbalance_percent = 100 * (max_val - min_val) / max_val over
\* the warning, asked only of a sample with a significant current
ImbalanceRule(values) ==
    LET max_val == CHOOSE v \in {values[1], values[2], values[3]} :
                       \A w \in {values[1], values[2], values[3]} : v >= w
        min_val == CHOOSE v \in {values[1], values[2], values[3]} :
                       \A w \in {values[1], values[2], values[3]} : v <= w
    IN  /\ max_val > SignificantCurrent
        /\ 100 * (max_val - min_val) > imbalance_warning * max_val

\* for i in range(min(20, len(recent_data))): one anomaly per sample over the rule
ImbalanceAnomalies(head, n) ==
    Rep(Anomaly("imbalance", ""),
        Cardinality({i \in 1..Min(Len(head), Min(20, n)) : ImbalanceRule(head[i])}))

\* A variant that looks at the number of recent rows before the training result
PhaseDetectionRowsFirst(tr, key, n, given, fault, data) ==
    IF n < MinRecentRows THEN [D |-> tr.D, r |-> InsufficientData]
    ELSE IF ~tr.ret THEN [D |-> tr.D, r |-> NoModel]
    ELSE IF ~given /\ fault.stage = "recent_read" THEN [D |-> tr.D, r |-> Error]
    ELSE [D |-> tr.D, r |-> Ok(<<>>)]

\* What follows the training guard; tr is what the training (if any) returned.
PhaseDetection(tr, key, n, given, fault, data) ==
    IF ~tr.ret THEN [D |-> tr.D, r |-> NoModel]
    ELSE IF ~given /\ fault.stage = "recent_read" THEN [D |-> tr.D, r |-> Error]
    ELSE IF n < MinRecentRows THEN [D |-> tr.D, r |-> InsufficientData]
    ELSE IF key \notin DOMAIN tr.D.scalers \/ key \notin DOMAIN tr.D.models
         THEN [D |-> tr.D, r |-> Error]
    \* idx = i + 10; recent_data.iloc[idx] raises IndexError for idx = n
    ELSE IF n >= VarianceMinRows /\ \E i \in data.hv : i + VarianceWindow >= n
         THEN [D |-> tr.D, r |-> Error]
    ELSE [D |-> tr.D,
          r |-> Ok(Rep(Anomaly("isolation_forest", ""), Min(data.flagged, n))
                   \o ImbalanceAnomalies(data.head, n)
                   \o Rep(Anomaly("high_variance", ""),
                          IF n >= VarianceMinRows THEN Cardinality(data.hv) ELSE 0))]

detect_phase_current_anomalies(D, m, given, t, R, fault, data) ==
    PhaseDetection(IF ~HasModel(D, PhaseKey(m))
                   THEN train_phase_current_model(D, m, FALSE, t, R, TrainFault(fault))
                   ELSE [D |-> D, ret |-> TRUE],
                   PhaseKey(m), IF given THEN data.n ELSE Min(RecentLimit, R.phase),
                   given, fault, data)

(***************************************************************************)
(* detect_controller_anomalies(machine_id, controller_id, recent_data)     *)
(*   data: n rows, flagged rows, volts: the voltages of the most recent    *)
(*         rows that are not nominal (whole volts), unstable: the          *)
(*         coefficient of variation of the voltages is over 0.05           *)
(***************************************************************************)
\* lines 555-565: the rule compares against a "nominal" read from dropout_warning
VoltageDropAnomalies(volts) ==
    LET nominal_voltage == dropout_warning
        Drop(v) == nominal_voltage - v
        hit == SelectSeq(volts, LAMBDA v : Drop(v) > dropout_warning)
    IN  [i \in 1..Len(hit) |->
            Anomaly("voltage_drop",
                    IF Drop(hit[i]) > dropout_critical THEN "critical" ELSE "warning")]

ControllerDetection(tr, key, n, given, fault, data) ==
    IF ~tr.ret THEN [D |-> tr.D, r |-> NoModel]
    ELSE IF ~given /\ fault.stage = "recent_read" THEN [D |-> tr.D, r |-> Error]
    ELSE IF n < MinRecentRows THEN [D |-> tr.D, r |-> InsufficientData]
    \* self.scalers[key] / self.models[key]: KeyError when the key is missing
    ELSE IF key \notin DOMAIN tr.D.scalers \/ key \notin DOMAIN tr.D.models
         THEN [D |-> tr.D, r |-> Error]
    ELSE [D |-> tr.D,
          r |-> Ok(Rep(Anomaly("isolation_forest", ""), Min(data.flagged, n))
                   \o VoltageDropAnomalies(SubSeq(data.volts, 1,
                                                  Min(Len(data.volts), Min(20, n))))
                   \o (IF n >= stability_window /\ data.unstable
                       THEN <<Anomaly("voltage_instability", "")>> ELSE <<>>))]

detect_controller(D, m, c, given, t, R, fault, data) ==
    ControllerDetection(IF ~HasModel(D, ControllerKey(m, c))
                        THEN train_controller_model(D, m, FALSE, t, R, TrainFault(fault))
                        ELSE [D |-> D, ret |-> TRUE],
                        ControllerKey(m, c),
                        IF given THEN data.n ELSE Min(RecentLimit, R.ctrl[c]),
                        given, fault, data)

\* What the loops of the two aggregating detections keep of the single calls:
\* the anomalies of the ok ones.  statuses records what every call returned.
Collect(one, rest) ==
    [D |-> rest.D,
     anomalies |-> (IF one.r.status = "ok" THEN one.r.anomalies ELSE <<>>)
                   \o rest.anomalies,
     statuses |-> <<one.r.status>> \o rest.statuses]

\* return {'status': 'ok', 'anomalies': all_anomalies}
Aggregate(l) == [D |-> l.D, r |-> Ok(l.anomalies), statuses |-> l.statuses]

\* controller_id is None: one call per controller of the store
RECURSIVE ControllerCalls(_, _, _, _, _, _, _, _)
ControllerRest(one, m, cs, i, t, R, fault, data) ==
    Collect(one, ControllerCalls(one.D, m, cs, i + 1, t, R, fault, data))

ControllerCalls(D, m, cs, i, t, R, fault, data) ==
    IF i > Len(cs) THEN [D |-> D, anomalies |-> <<>>, statuses |-> <<>>]
    ELSE ControllerRest(detect_controller(D, m, cs[i], FALSE, t, R, fault, data),
                        m, cs, i, t, R, fault, data)

detect_controller_all(D, m, t, R, fault, data) ==
    IF fault.stage = "list" THEN [D |-> D, r |-> Error, statuses |-> <<>>]
    ELSE Aggregate(ControllerCalls(D, m, StoredControllers(R), 1, t, R, fault, data))

(***************************************************************************)
(* detect_transition_anomalies(machine_id, transition_type, recent_data)   *)
(*   data: n rows, outliers: the rows (1..n) DBSCAN labels -1, durs: the   *)
(*         transition_time of the most recent rows (tenths of a second,    *)
(*         the other rows are nominal), trend: the regression over the     *)
(*         last trend_window rows is rising, significant and over 5 %      *)
(***************************************************************************)
\* The attributes __init__ gives an AnomalyDetector (lines 42-45)
DetectorAttributes == {"db", "models", "scalers", "last_trained"}

LongTransitionSeverity(dur) ==
    IF dur * 100 > NominalTransitionTime * (100 + increase_critical) THEN "critical"
    ELSE IF dur * 100 > NominalTransitionTime * (100 + increase_warning) THEN "warning"
    ELSE "none"

\* lines 712-733: the rows over the warning threshold that DBSCAN has not listed
RECURSIVE LongTransitions(_, _, _)
LongTransitions(durs, outliers, i) ==
    IF i > Len(durs) THEN <<>>
    ELSE (IF LongTransitionSeverity(durs[i]) # "none" /\ i \notin outliers
          THEN <<Anomaly("long_transition", LongTransitionSeverity(durs[i]))>>
          ELSE <<>>) \o LongTransitions(durs, outliers, i + 1)

TransitionDetection(tr, key, n, given, fault, data) ==
    IF ~tr.ret THEN [D |-> tr.D, r |-> NoModel]
    ELSE IF ~given /\ fault.stage = "recent_read" THEN [D |-> tr.D, r |-> Error]
    ELSE IF n < MinRecentTransitions THEN [D |-> tr.D, r |-> InsufficientData]
    ELSE IF key \notin DOMAIN tr.D.scalers \/ key \notin DOMAIN tr.D.models
         THEN [D |-> tr.D, r |-> Error]
    \* line 708: self.config[...] on an object that has no such attribute
    ELSE IF "config" \notin DetectorAttributes THEN [D |-> tr.D, r |-> Error]
    ELSE [D |-> tr.D,
          r |-> Ok(Rep(Anomaly("dbscan_outlier", ""), Cardinality(data.outliers \cap (1..n)))
                   \o LongTransitions(SubSeq(data.durs, 1, Min(Len(data.durs), n)),
                                      data.outliers \cap (1..n), 1)
                   \o (IF n >= trend_window /\ data.trend
                       THEN <<Anomaly("increasing_trend", "")>> ELSE <<>>))]

detect_transition(D, m, tt, given, t, R, fault, data) ==
    TransitionDetection(IF ~HasModel(D, TransitionKey(m, tt))
                        THEN train_transition_model(D, m, FALSE, t, R, TrainFault(fault))
                        ELSE [D |-> D, ret |-> TRUE],
                        TransitionKey(m, tt),
                        IF given THEN data.n ELSE Min(TransitionRecentLimit, R.trans[tt]),
                        given, fault, data)

\* transition_type is None: both directions, and the combined result is ok
\* whatever the single calls returned
RECURSIVE TransitionCalls(_, _, _, _, _, _, _)
TransitionRest(one, m, i, t, R, fault, data) ==
    Collect(one, TransitionCalls(one.D, m, i + 1, t, R, fault, data))

TransitionCalls(D, m, i, t, R, fault, data) ==
    IF i > Len(TransitionTypes) THEN [D |-> D, anomalies |-> <<>>, statuses |-> <<>>]
    ELSE TransitionRest(detect_transition(D, m, TransitionTypes[i], FALSE, t, R, fault, data),
                        m, i, t, R, fault, data)

detect_transition_all(D, m, t, R, fault, data) ==
    Aggregate(TransitionCalls(D, m, 1, t, R, fault, data))

(***************************************************************************)
(* get_machine_health_status(machine_id)                                   *)
(***************************************************************************)
\* lines 805-815, from the three anomaly counts.  phase, controller and
\* mechanical are in percent, electrical10 is electrical_health in tenths and
\* overall100 is overall_health in hundredths (the weights are 0.6/0.4, 0.7/0.3).
\* A variant that forgets the min(100, .) of the three penalties
HealthScoresUnclamped(p, c, t) ==
    [phase |-> 100 - p * 10, controller |-> 100 - c * 15,
     electrical10 |-> (100 - p * 10) * 6 + (100 - c * 15) * 4,
     mechanical |-> 100 - t * 20,
     overall100 |-> ((100 - p * 10) * 6 + (100 - c * 15) * 4) * 7 + (100 - t * 20) * 30]

HealthScores(p, c, t) ==
    LET phase_health == 100 - Min(100, p * 10)
        controller_health == 100 - Min(100, c * 15)
        electrical10 == phase_health * 6 + controller_health * 4
        mechanical_health == 100 - Min(100, t * 20)
    IN  [phase |-> phase_health, controller |-> controller_health,
         electrical10 |-> electrical10, mechanical |-> mechanical_health,
         overall100 |-> electrical10 * 7 + mechanical_health * 30]

\* line 841
ConditionLevel(overall100) ==
    IF overall100 < 7000 THEN "high" ELSE IF overall100 < 8500 THEN "medium" ELSE "low"

NoScores == [phase |-> -1, controller |-> -1, electrical10 |-> -1, mechanical |-> -1,
             overall100 |-> -1]

HealthError == [status |-> "error", scores |-> NoScores, health_score |-> 0,
                counts |-> <<0, 0, 0>>, condition_level |-> "none"]

Completed(status) == status \in {"ok", "no_model", "insufficient_data"}

\* What follows the three detections inside the try block: the scores, the
\* recommendation lookup, calculate_next_maintenance_date, save_health_status
PostStages == {"scoring", "recommendations", "next_maintenance", "save_raises"}

\* A variant without the except clause: the exception reaches the caller
HealthPropagates(D, ran) ==
    [D |-> D, r |-> [HealthError EXCEPT !.status = "raised"], ran |-> ran, saved |-> 0]

\* except Exception as e: return {"status": "error", "message": str(e),
\* "health_score": 0} -- after the detections of ran, which left the detector D
HealthRaised(D, ran) == [D |-> D, r |-> HealthError, ran |-> ran, saved |-> 0]

\* lines 792-800 and 805-880, from the three results
HealthResult(pr, cr, xr, sc, fault) ==
    IF fault.stage \in PostStages
       /\ Completed(pr.r.status) /\ Completed(cr.r.status) /\ Completed(xr.r.status)
    THEN HealthRaised(xr.D, <<pr.r.status, cr.r.status, xr.r.status>>
                            \o cr.statuses \o xr.statuses)
    ELSE
    [D |-> xr.D,
     r |-> IF Completed(pr.r.status) /\ Completed(cr.r.status) /\ Completed(xr.r.status)
           THEN [status |-> "ok", scores |-> sc, health_score |-> sc.overall100,
                 counts |-> <<Len(pr.r.anomalies), Len(cr.r.anomalies), Len(xr.r.anomalies)>>,
                 condition_level |-> ConditionLevel(sc.overall100)]
           ELSE HealthError,
     \* the statuses of every detection that ran, the inner ones included
     ran |-> <<pr.r.status, cr.r.status, xr.r.status>> \o cr.statuses \o xr.statuses,
     \* save_health_status returns False on a database error, unnoticed
     saved |-> IF Completed(pr.r.status) /\ Completed(cr.r.status)
                  /\ Completed(xr.r.status) /\ fault.stage # "save_snapshot"
               THEN 1 ELSE 0]

HealthAfterTransitions(pr, cr, xr, fault) ==
    HealthResult(pr, cr, xr,
                 HealthScores(Len(pr.r.anomalies), Len(cr.r.anomalies), Len(xr.r.anomalies)),
                 fault)

HealthAfterControllers(pr, cr, m, t, R, fault, data) ==
    IF fault.stage = "raise" /\ fault.fam = "transition"
    THEN HealthRaised(cr.D, <<pr.r.status, cr.r.status>> \o cr.statuses)
    ELSE
    HealthAfterTransitions(pr, cr,
        detect_transition_all(cr.D, m, t, R, FaultFor(fault, "transition"), data.trans),
        fault)

HealthAfterPhases(pr, m, t, R, fault, data) ==
    IF fault.stage = "raise" /\ fault.fam = "controller"
    THEN HealthRaised(pr.D, <<pr.r.status>>)
    ELSE
    HealthAfterControllers(pr,
        detect_controller_all(pr.D, m, t, R, FaultFor(fault, "controller"), data.ctrl),
        m, t, R, fault, data)

get_machine_health_status(D, m, t, R, fault, data) ==
    IF fault.stage = "raise" /\ fault.fam = "phase" THEN HealthRaised(D, <<>>)
    ELSE
    HealthAfterPhases(
        detect_phase_current_anomalies(D, m, FALSE, t, R, FaultFor(fault, "phase"),
                                       data.phase),
        m, t, R, fault, data)

(***************************************************************************)
(* The detector as a state machine                                         *)
(***************************************************************************)
MaxClock == 36
ClockStep == 12
MaxFlagged == 1
MaxSnapshots == 2

\* The store at the start of a behaviour: row counts around the training minima.
PhaseRows == {min_samples - 1, min_samples}
ControllerRows ==
    {[c \in ControllerSet |-> MinControllerRows],
     [c \in ControllerSet |-> IF c = ctrl_1 THEN MinControllerRows + 1
                                            ELSE MinControllerRows - 1],
     [c \in ControllerSet |-> IF c = ctrl_1 THEN MinControllerRows
                                            ELSE MinControllerRows - 1]}
TransitionRows ==
    {[t \in TransitionTypeSet |-> MinDirectionRows],
     [t \in TransitionTypeSet |-> IF t = normal_to_reverse THEN MinDirectionRows + 1
                                                           ELSE MinDirectionRows - 1],
     [t \in TransitionTypeSet |-> IF t = normal_to_reverse THEN MinDirectionRows
                                                           ELSE MinDirectionRows - 1]}

NoControllerRows == [c \in ControllerSet |-> 0]
NoTransitionRows == [t \in TransitionTypeSet |-> 0]
\* A store holds rows of one family, or of all three.
StoreStarts ==
    [phase : PhaseRows, ctrl : {NoControllerRows}, trans : {NoTransitionRows}]
    \cup [phase : {0}, ctrl : ControllerRows, trans : {NoTransitionRows}]
    \cup [phase : {0}, ctrl : {NoControllerRows}, trans : TransitionRows]

\* Frames a caller passes as recent_data: their row counts
GivenRows == {MinRecentRows - 1, MinRecentRows, VarianceMinRows}
GivenTransitions == {MinRecentTransitions - 1, MinRecentTransitions, trend_window}

\* nominal * (1 + increase_warning/100) and nominal * (1 + increase_critical/100)
WarningDuration == (NominalTransitionTime * (100 + increase_warning)) \div 100
CriticalDuration == (NominalTransitionTime * (100 + increase_critical)) \div 100

\* What the recent rows hold: at most one notable thing per frame
CleanPhase(n) == [n |-> n, flagged |-> 0, head |-> <<>>, hv |-> {}]
\* samples on both sides of the two comparisons of the imbalance rule
HeadSamples ==
    {<<500, 500, 0>>, <<500, 450, 500>>, <<500, 449, 500>>, <<50, 0, 0>>, <<51, 0, 0>>}
PhaseData(n) ==
    {[CleanPhase(n) EXCEPT !.flagged = f] : f \in 0..MaxFlagged}
    \cup {[CleanPhase(n) EXCEPT !.head = <<v>>] : v \in HeadSamples}
    \cup {[CleanPhase(n) EXCEPT !.head = <<<<500, 500, 0>>>>, !.hv = {n - VarianceWindow}]}
    \cup {[CleanPhase(n) EXCEPT !.hv = {i}] : i \in {0, n - VarianceWindow}}
CleanController(n) == [n |-> n, flagged |-> 0, volts |-> <<>>, unstable |-> FALSE]
ControllerData(n) ==
    {[CleanController(n) EXCEPT !.flagged = f] : f \in 0..MaxFlagged}
    \cup {[CleanController(n) EXCEPT !.volts = <<v>>] : v \in {21, 19}}
    \cup {[CleanController(n) EXCEPT !.unstable = TRUE]}
CleanTransition(n) ==
    [n |-> n, outliers |-> {}, durs |-> <<NominalTransitionTime>>, trend |-> FALSE]
TransitionData(n) ==
    {[CleanTransition(n) EXCEPT !.durs = <<d>>] :
         d \in {NominalTransitionTime, WarningDuration, WarningDuration + 1,
                CriticalDuration, CriticalDuration + 1}}
    \cup {[CleanTransition(n) EXCEPT !.durs = <<WarningDuration + 1>>, !.outliers = {1}],
          [CleanTransition(n) EXCEPT !.trend = TRUE]}

\* What get_machine_health_status may meet in the store
HealthData ==
    [phase : {CleanPhase(RecentLimit), [CleanPhase(RecentLimit) EXCEPT !.flagged = MaxFlagged],
              \* enough flagged rows for a medium and for a high condition level
              [CleanPhase(RecentLimit) EXCEPT !.flagged = 4],
              [CleanPhase(RecentLimit) EXCEPT !.flagged = 8],
              [CleanPhase(RecentLimit) EXCEPT !.hv = {RecentLimit - VarianceWindow}]},
     ctrl : {CleanController(RecentLimit),
             [CleanController(RecentLimit) EXCEPT !.flagged = MaxFlagged]},
     trans : {CleanTransition(TransitionRecentLimit),
              [CleanTransition(TransitionRecentLimit) EXCEPT !.durs = <<WarningDuration + 1>>],
              [CleanTransition(TransitionRecentLimit) EXCEPT !.outliers = {1}]}]

Raised(stage, sub, fam) == [stage |-> stage, sub |-> sub, fam |-> fam]
TrainFaults(subs) == {NoFault} \cup {Raised(s, x, "none") : s \in TrainStages, x \in subs}
\* a detection: its own read fails, or the training it starts fails in its first fit
DetectFaults(first) ==
    {NoFault, Raised("recent_read", <<>>, "none"), Raised("fit", first, "none")}
HealthFaults ==
    {NoFault, Raised("save_snapshot", <<>>, "none"), Raised("list", <<>>, "controller"),
     Raised("dump_model", <<>>, "phase")}
    \cup {Raised("recent_read", <<>>, f) : f \in {"phase", "controller", "transition"}}
    \* an exception that a detection, or a step after the detections, lets out
    \cup {Raised("raise", <<>>, f) : f \in {"phase", "controller", "transition"}}
    \cup {Raised(st, <<>>, "none") : st \in PostStages}

Self == Detector(models, scalers, last_trained, files)

\* A call as the caller made it: the controller or direction (sub), whether it
\* passed recent_data, force, the rows the detection looks at and what they hold,
\* and the exception its environment raises
Call(sub, given, force, n, data, fault) ==
    [sub |-> sub, given |-> given, force |-> force, n |-> n, data |-> data,
     fault |-> fault]
NoCall == Call(<<>>, FALSE, FALSE, 0, <<>>, NoFault)
NoReturn == [status |-> "none", anomalies |-> <<>>]

Result(op, call, ret, r, ran, health) ==
    [op |-> op, call |-> call, ret |-> ret, status |-> r.status,
     anomalies |-> r.anomalies, ran |-> ran, health |-> health]

NoResult == Result("none", NoCall, FALSE, NoReturn, <<>>, HealthError)

\* The detector's four dictionaries after a call
Becomes(D) ==
    /\ models' = D.models
    /\ scalers' = D.scalers
    /\ last_trained' = D.last_trained
    /\ files' = D.files

TrainResult(op, force, fault, tr) ==
    /\ res = NoResult
    /\ Becomes(tr.D)
    /\ res' = Result(op, Call(<<>>, FALSE, force, 0, <<>>, fault), tr.ret, NoReturn, <<>>,
                     HealthError)
    /\ UNCHANGED <<asset, rows, now, snapshots, scoreVars, simVars, auxVars, storeVars>>

DetectResult(op, call, d) ==
    /\ res = NoResult
    /\ Becomes(d.D)
    /\ res' = Result(op, call, FALSE, d.r, <<>>, HealthError)
    /\ UNCHANGED <<asset, rows, now, snapshots, scoreVars, simVars, auxVars, storeVars>>

AllResult(op, call, d) ==
    /\ res = NoResult
    /\ Becomes(d.D)
    /\ res' = Result(op, call, FALSE, d.r, d.statuses, HealthError)
    /\ UNCHANGED <<asset, rows, now, snapshots, scoreVars, simVars, auxVars, storeVars>>

\* A variant that counts a snapshot for every call, whatever it returns
HealthReturnsAlwaysSaved(call, h) ==
    /\ res = NoResult
    /\ Becomes(h.D)
    /\ snapshots' = snapshots + 1
    /\ res' = Result("get_machine_health_status", call, FALSE,
                     [status |-> h.r.status, anomalies |-> <<>>], h.ran, h.r)
    /\ UNCHANGED <<asset, rows, now, scoreVars, simVars, auxVars, storeVars>>

HealthReturns(call, h) ==
    /\ res = NoResult
    /\ Becomes(h.D)
    /\ snapshots' = snapshots + h.saved
    /\ res' = Result("get_machine_health_status", call, FALSE,
                     [status |-> h.r.status, anomalies |-> <<>>], h.ran, h.r)
    /\ UNCHANGED <<asset, rows, now, scoreVars, simVars, auxVars, storeVars>>

TrainPhase ==
    \E force \in BOOLEAN, fault \in TrainFaults({<<>>}) :
        TrainResult("train_phase_current_model", force, fault,
                    train_phase_current_model(Self, asset, force, now, rows, fault))

TrainController ==
    \E force \in BOOLEAN, fault \in TrainFaults(ControllerSet) :
        TrainResult("train_controller_model", force, fault,
                    train_controller_model(Self, asset, force, now, rows, fault))

TrainTransition ==
    \E force \in BOOLEAN, fault \in TrainFaults(TransitionTypeSet) :
        TrainResult("train_transition_model", force, fault,
                    train_transition_model(Self, asset, force, now, rows, fault))

DetectPhase ==
    \E given \in BOOLEAN, fault \in DetectFaults(<<>>) :
      \E n \in IF given THEN GivenRows ELSE {Min(RecentLimit, rows.phase)} :
        \E data \in PhaseData(n) :
            DetectResult("detect_phase_current_anomalies",
                         Call(<<>>, given, FALSE, n, data, fault),
                         detect_phase_current_anomalies(Self, asset, given, now, rows,
                                                        fault, data))

DetectController ==
    \E c \in ControllerSet, given \in BOOLEAN, fault \in DetectFaults(ctrl_1) :
      \E n \in IF given THEN GivenRows ELSE {Min(RecentLimit, rows.ctrl[c])} :
        \E data \in ControllerData(n) :
            DetectResult("detect_controller_anomalies",
                         Call(c, given, FALSE, n, data, fault),
                         detect_controller(Self, asset, c, given, now, rows, fault, data))

DetectControllerAll ==
    \E fault \in DetectFaults(ctrl_1) \cup {Raised("list", <<>>, "none")} :
      \E data \in ControllerData(RecentLimit) :
        AllResult("detect_controller_anomalies",
                  Call(<<>>, FALSE, FALSE, RecentLimit, data, fault),
                  detect_controller_all(Self, asset, now, rows, fault, data))

DetectTransition ==
    \E tt \in TransitionTypeSet, given \in BOOLEAN, fault \in DetectFaults(normal_to_reverse) :
      \E n \in IF given THEN GivenTransitions
                        ELSE {Min(TransitionRecentLimit, rows.trans[tt])} :
        \E data \in TransitionData(n) :
            DetectResult("detect_transition_anomalies",
                         Call(tt, given, FALSE, n, data, fault),
                         detect_transition(Self, asset, tt, given, now, rows, fault, data))

DetectTransitionAll ==
    \E fault \in DetectFaults(normal_to_reverse) :
      \E data \in TransitionData(TransitionRecentLimit) :
        AllResult("detect_transition_anomalies",
                  Call(<<>>, FALSE, FALSE, TransitionRecentLimit, data, fault),
                  detect_transition_all(Self, asset, now, rows, fault, data))

Health ==
    /\ snapshots < MaxSnapshots
    /\ \E fault \in HealthFaults :
        \E data \in HealthData :
          HealthReturns(Call(<<>>, FALSE, FALSE, 0, data, fault),
                        get_machine_health_status(Self, asset, now, rows, fault, data))

\* The process ends and a new AnomalyDetector is constructed over the same MODEL_DIR
Restart ==
    /\ res = NoResult
    /\ \E D \in NewDetectors(files) : Becomes(D)
    /\ res' = Result("__init__", NoCall, FALSE, NoReturn, <<>>, HealthError)
    /\ UNCHANGED <<asset, rows, now, snapshots, scoreVars, simVars, auxVars, storeVars>>

\* The caller takes what the call returned; the next call can begin
Return ==
    /\ res # NoResult
    /\ res' = NoResult
    /\ UNCHANGED <<asset, rows, now, models, scalers, last_trained, files, snapshots,
                   scoreVars, simVars, auxVars, storeVars>>

AdvanceClock ==
    /\ res = NoResult
    /\ now < MaxClock
    /\ now' = now + ClockStep
    /\ UNCHANGED <<asset, rows, models, scalers, last_trained, files, snapshots, res,
                   scoreVars, simVars, auxVars, storeVars>>

DetInit ==
    /\ asset \in MONITORING_PARAMS
    /\ rows \in StoreStarts
    /\ now = 0
    /\ models = EmptyDict
    /\ scalers = EmptyDict
    /\ last_trained = EmptyDict
    /\ files = EmptyDict
    /\ snapshots = 0
    /\ res = NoResult

(***************************************************************************)
(* Health scoring on its own: the three anomaly counts are the input       *)
(***************************************************************************)
MaxPhaseAnomalies == 11
MaxControllerAnomalies == 8
MaxTransitionAnomalies == 6

ScoreInit ==
    /\ sc_in \in (0..MaxPhaseAnomalies) \X (0..MaxControllerAnomalies)
                 \X (0..MaxTransitionAnomalies)
    /\ sc_out = NoScores

Score ==
    /\ sc_out = NoScores
    /\ sc_out' = HealthScores(sc_in[1], sc_in[2], sc_in[3])
    /\ UNCHANGED <<sc_in, detVars, simVars, auxVars, storeVars>>

(***************************************************************************)
(* MachineSimulator                                                        *)
(***************************************************************************)
\* accumulated_wear 1.0 in wear units; degradation_rate 0.001 is 10 of them
WearScale == 10000
degradation_rate == 10
\* transition_time[...]['nominal'], seconds; refresh_rate, seconds
nominal_time == 6
refresh_rate == 1

MaxThreads == 2
MaxTicks == 7
MaxMaintenance == 2

Opposite(pos) == IF pos = "Normal" THEN "Reversa" ELSE "Normal"
Idle == [in_progress |-> FALSE, start_time |-> -1, target |-> "None"]

Alive(t) == threads[t] # "dead"
AliveThreads == {t \in 1..Len(threads) : Alive(t)}

\* start()
Start ==
    /\ caller.pc = "idle"
    /\ IF running
       THEN /\ caller' = [pc |-> "idle", last |-> "start_ignored"]
            /\ UNCHANGED <<running, threads, thread>>
       ELSE /\ Len(threads) < MaxThreads
            /\ running' = TRUE
            /\ threads' = Append(threads, "check")
            /\ thread' = Len(threads) + 1
            /\ caller' = [pc |-> "idle", last |-> "start"]
    /\ UNCHANGED <<position, transition, phase_currents, wear, last_maintenance, ticks, maint,
                   detVars, scoreVars, auxVars, storeVars>>

\* stop(), up to the join
Stop ==
    /\ caller.pc = "idle"
    /\ IF ~running
       THEN /\ caller' = [pc |-> "idle", last |-> "stop_ignored"]
            /\ UNCHANGED running
       ELSE /\ running' = FALSE
            /\ caller' = IF thread # 0 THEN [pc |-> "joining", last |-> "stop"]
                                       ELSE [pc |-> "idle", last |-> "stop"]
    /\ UNCHANGED <<threads, thread, position, transition, phase_currents, wear, last_maintenance,
                   ticks, maint, detVars, scoreVars, auxVars, storeVars>>

\* self.thread.join(timeout=2.0) returns: the thread has ended, or two seconds
\* have passed with the thread inside an iteration (its store writes, its sleep)
JoinReturns ==
    /\ caller.pc = "joining"
    /\ \/ /\ ~Alive(thread)
          /\ caller' = [pc |-> "idle", last |-> "stop_joined"]
       \/ /\ threads[thread] \in {"body", "sleep"}
          /\ caller' = [pc |-> "idle", last |-> "stop_timeout"]
    /\ UNCHANGED <<running, threads, thread, position, transition, phase_currents, wear,
                   last_maintenance, ticks, maint, detVars, scoreVars, auxVars, storeVars>>

\* _simulation_loop: while self.running
LoopCheck(t) ==
    /\ threads[t] = "check"
    /\ threads' = [threads EXCEPT ![t] = IF running THEN "body" ELSE "dead"]
    /\ UNCHANGED <<running, thread, caller, position, transition, phase_currents, wear,
                   last_maintenance, ticks, maint, detVars, scoreVars, auxVars, storeVars>>

\* _update_machine_state, before the faults: the transition and the phase currents
Completes(tr, w, t) == (t - tr.start_time) * WearScale >= nominal_time * (WearScale + w)

\* random.random() as a percentage, one draw per phase
PhaseNames == {"phase_a", "phase_b", "phase_c"}
Draws ==
    {[p \in PhaseNames |-> 0],
     [p \in PhaseNames |-> IF p = "phase_a" THEN 99 ELSE IF p = "phase_b" THEN 0 ELSE 50]}

\* lines 290-299: base_max * transition_factor * (0.7 + 0.3 * random()) * wear_factor,
\* transition_factor = 4 * progress * (1 - progress); rounded down to a hundredth of
\* an ampere after each factor
TransitionCurrent(tr, w, t, r) ==
    LET progress == Min(100, ((t - tr.start_time) * 100 * WearScale)
                                 \div (nominal_time * (WearScale + w)))
        transition_factor == (4 * progress * (100 - progress)) \div 100
        bell == (phase_cfg.max * transition_factor) \div 100
        noisy == (bell * (70 + (30 * r) \div 100)) \div 100
    IN  (noisy * (WearScale + w)) \div WearScale

\* lines 313-316: base_min + 0.1 * base_min * random() * wear_factor
IdleCurrent(w, r) ==
    phase_cfg.min + (phase_cfg.min * r * (WearScale + w)) \div (1000 * WearScale)

\* The "normal behaviour" branch is the else of the inner test (line 308), inside
\* "if transition_in_progress" (line 255): it runs in the tick that completes a
\* transition; a tick without a transition leaves the currents as they are.
UpdatedState(pos, tr, pc, w, t, draw) ==
    IF tr.in_progress
    THEN IF Completes(tr, w, t)
         THEN [position |-> tr.target, transition |-> Idle,
               phase_currents |-> [p \in PhaseNames |-> IdleCurrent(w, draw[p])]]
         ELSE [position |-> pos, transition |-> tr,
               phase_currents |-> [p \in PhaseNames |-> TransitionCurrent(tr, w, t, draw[p])]]
    ELSE [position |-> pos, transition |-> tr, phase_currents |-> pc]

\* max(self.current_state['phase_currents'].values())
MaxCurrent(pc) ==
    CHOOSE x \in {pc[p] : p \in PhaseNames} : \A p \in PhaseNames : pc[p] <= x

\* A variant that tells the positions of the row from the position the tick
\* has already moved to
TransitionRowAfterMove(pos, tr, pc, t) ==
    [start_position |-> tr.target,
     end_position |-> IF tr.target = "Normal" THEN "Reversa" ELSE "Normal",
     transition_time |-> t - tr.start_time,
     current_spike |-> MaxCurrent(pc)]

\* lines 263-284: the row save_position_transition is called with when the
\* transition completes; the positions are told from transition_key, the spike
\* is the largest phase current as the tick finds them
TransitionRow(pos, tr, pc, t) ==
    [start_position |-> IF pos = "Normal" THEN "Normal" ELSE "Reversa",
     end_position |-> IF pos = "Normal" THEN "Reversa" ELSE "Normal",
     transition_time |-> t - tr.start_time,
     current_spike |-> MaxCurrent(pc)]

CompletedTransition(pos, tr, pc, w, t) ==
    IF tr.in_progress /\ Completes(tr, w, t) THEN <<TransitionRow(pos, tr, pc, t)>>
    ELSE <<>>

\* behavior['fault_probability'] = 0.01, in thousandths
fault_probability == 10
ShippedBehavior ==
    [degradation_rate |-> degradation_rate, fault_probability |-> fault_probability]
\* a simulator that wears and whose faults are switched off
FaultFreeBehavior == [degradation_rate |-> degradation_rate, fault_probability |-> 0]
\* a simulator whose wear is held at 0 and whose faults are switched off
QuietBehavior == [degradation_rate |-> 0, fault_probability |-> 0]

\* config['current_phases'][...] as shipped, and with two other maxima
ShippedPhases == [min |-> 0, max |-> 500, warning |-> 450, critical |-> 480]
PhaseConfigs ==
    {ShippedPhases, [ShippedPhases EXCEPT !.max = 400], [ShippedPhases EXCEPT !.max = 420]}

\* config['controllers'][...]: nominal, warning and critical, tenths of a volt
ctrl_nominal == 240
ctrl_warning == 220
ctrl_critical == 200

MaxFaults == 1

FaultKinds == {"voltage_drop", "current_spike", "phase_imbalance"}

\* What _simulate_faults draws once it fires: the kind, the phase of a spike and
\* the factor(s) in percent -- drop_factor in [0.6, 0.9), spike_factor in
\* [1.1, 1.5) (1.5 is what a test forces), the two factors of an imbalance.
NoInjection == [kind |-> "none", phase |-> "none", factor |-> 0, factor2 |-> 0]
Injection(kind, phase, f, f2) == [kind |-> kind, phase |-> phase, factor |-> f, factor2 |-> f2]
Faults ==
    {Injection("voltage_drop", "none", f, 0) : f \in {60, 89}}
    \cup {Injection("current_spike", p, f, 0) : p \in PhaseNames, f \in {110, 150}}
    \cup {Injection("phase_imbalance", "none", 60, 130),
          Injection("phase_imbalance", "none", 80, 150)}

\* A variant that fires when the draw equals the chance
FaultFiresAtChance(chance) ==
    chance * WearScale <= behavior.fault_probability * (WearScale + 5 * wear)

\* random.random() < fault_probability * (1 + 5 * accumulated_wear); the draw and
\* the probability in thousandths
ChanceDraws == {0, 999}
FaultFires(chance) ==
    chance * WearScale < behavior.fault_probability * (WearScale + 5 * wear)

\* _simulate_faults: phase_imbalance divides by phase_a (line 391)
FaultRaises(fault, pc) == fault.kind = "phase_imbalance" /\ pc["phase_a"] = 0

\* the phase currents a fault leaves (lines 365, 385-386)
AfterFault(fault, pc) ==
    IF fault.kind = "current_spike"
    THEN [pc EXCEPT ![fault.phase] = (phase_cfg.max * fault.factor) \div 100]
    ELSE IF fault.kind = "phase_imbalance"
    THEN [pc EXCEPT !["phase_b"] = (pc["phase_a"] * fault.factor) \div 100,
                    !["phase_c"] = (pc["phase_a"] * fault.factor2) \div 100]
    ELSE pc

\* a row of the alerts table as save_alert inserts it (acknowledged DEFAULT 0)
Alert(m, type, severity, value, threshold) ==
    [machine_id |-> m, alert_type |-> type, severity |-> severity, value |-> value,
     threshold |-> threshold, acknowledged |-> 0]

\* A variant of the spike alert that is always critical
FaultAlertsCritical(m, fault, pc) ==
    IF fault.kind = "current_spike" /\ pc[fault.phase] > phase_cfg.warning
    THEN <<Alert(m, "current_spike", "critical", pc[fault.phase], phase_cfg.warning)>>
    ELSE <<>>

\* The alert a fault asks save_alert for (lines 347-356, 370-379, 391-402); pc is
\* what the fault left.  The controller voltages are not part of the state: a
\* drop is taken from the nominal voltage.
FaultAlerts(m, fault, pc) ==
    IF fault.kind = "current_spike"
    THEN IF pc[fault.phase] > phase_cfg.warning
         THEN <<Alert(m, "current_spike",
                      IF pc[fault.phase] > phase_cfg.critical THEN "critical" ELSE "warning",
                      pc[fault.phase], phase_cfg.warning)>>
         ELSE <<>>
    ELSE IF fault.kind = "voltage_drop"
    THEN IF (ctrl_nominal * fault.factor) \div 100 < ctrl_warning
         THEN <<Alert(m, "voltage_drop",
                      IF (ctrl_nominal * fault.factor) \div 100 < ctrl_critical
                      THEN "critical" ELSE "warning",
                      (ctrl_nominal * fault.factor) \div 100, ctrl_warning)>>
         ELSE <<>>
    ELSE IF fault.kind = "phase_imbalance"
    THEN IF 100 * (pc["phase_c"] - pc["phase_b"]) > 25 * pc["phase_a"]
         THEN <<Alert(m, "phase_imbalance", "warning",
                      (100 * (pc["phase_c"] - pc["phase_b"])) \div pc["phase_a"], 25)>>
         ELSE <<>>
    ELSE <<>>

\* DatabaseManager.save_alert: the INSERT, or False on a sqlite3.Error
save_alert(table, rows_, stored) == IF stored THEN table \o rows_ ELSE table

\* A variant of the wear step without the clamp
WearAfterTickUnclamped(w) == w + behavior.degradation_rate

\* the wear step that ends an iteration (lines 226-228)
WearAfterTick(w) ==
    IF w + behavior.degradation_rate > WearScale THEN WearScale
    ELSE w + behavior.degradation_rate

NoTick == [kind |-> "none", phase |-> "none", factor |-> 0, factor2 |-> 0,
           stored |-> FALSE, count |-> 0]

\* _save_measurements: save_phase_current and save_controller_measurement return
\* False on a sqlite3.Error, which nobody looks at.  peak is the largest phase
\* current persisted since the transition in progress began.
NotMeasured == [sample |-> "none", peak |-> 0]
Measured(u, pc, saved) ==
    [sample |-> IF saved THEN "saved" ELSE "failed",
     peak |-> IF ~u.transition.in_progress THEN 0
              ELSE IF saved /\ MaxCurrent(pc) > measured.peak THEN MaxCurrent(pc)
              ELSE measured.peak]

\* What an iteration of the loop does once the state is updated to u: the fault
\* (if one fires), _save_measurements, the wear step.  An exception ends the
\* loop with running = False.
Tick(t, u, event, fault, stored, saved) ==
    /\ position_transitions' = IF saved THEN position_transitions \o event
                               ELSE position_transitions
    /\ position' = u.position
    /\ transition' = u.transition
    /\ phase_currents' = AfterFault(fault, u.phase_currents)
    /\ last_fault' = IF fault = NoInjection THEN last_fault
                     ELSE [kind |-> fault.kind, phase |-> fault.phase,
                           factor |-> fault.factor, factor2 |-> fault.factor2,
                           stored |-> stored, count |-> last_fault.count + 1]
    /\ IF FaultRaises(fault, u.phase_currents)
       THEN /\ running' = FALSE
            /\ threads' = [threads EXCEPT ![t] = "dead"]
            /\ wear' = wear
            /\ alerts' = alerts
            /\ measured' = measured
       ELSE /\ running' = running
            /\ threads' = [threads EXCEPT ![t] = "sleep"]
            /\ wear' = WearAfterTick(wear)
            /\ measured' = Measured(u, AfterFault(fault, u.phase_currents), saved)
            /\ alerts' = save_alert(alerts,
                                    FaultAlerts(asset, fault,
                                                AfterFault(fault, u.phase_currents)),
                                    stored)

\* The inputs of an iteration that matter: a draw per phase when the currents are
\* computed, a fault when one fires, the fate of the INSERT when there is one
DrawsFor(tr) == IF tr.in_progress THEN Draws ELSE {[p \in PhaseNames |-> 0]}
FaultsFor(chance) ==
    IF FaultFires(chance) /\ last_fault.count < MaxFaults THEN Faults ELSE {NoInjection}
StoredFor(fault) == IF fault = NoInjection THEN {TRUE} ELSE BOOLEAN

\* _start_transition, which the loop calls with probability 0.03 when idle
Started(go) ==
    IF ~transition.in_progress /\ go
    THEN [in_progress |-> TRUE, start_time |-> ticks, target |-> Opposite(position)]
    ELSE transition

\* One iteration of the loop body: _start_transition with probability 0.03,
\* _update_machine_state (with _simulate_faults), _save_measurements, the wear
\* step.
LoopBody(t) ==
    /\ threads[t] = "body"
    /\ \E go \in BOOLEAN, chance \in ChanceDraws :
        \E draw \in DrawsFor(Started(go)), fault \in FaultsFor(chance) :
          \E stored \in StoredFor(fault), saved \in BOOLEAN :
            Tick(t, UpdatedState(position, Started(go), phase_currents, wear, ticks, draw),
                 CompletedTransition(position, Started(go), phase_currents, wear, ticks),
                 fault, stored, saved)
    /\ UNCHANGED <<thread, caller, last_maintenance, ticks, maint, detVars, scoreVars,
                   behavior, phase_cfg, query, simulators, workers, steps>>

\* time.sleep(self.config['refresh_rate'])
LoopSleep(t) ==
    /\ threads[t] = "sleep"
    /\ ticks < MaxTicks
    /\ ticks' = ticks + refresh_rate
    /\ threads' = [threads EXCEPT ![t] = "check"]
    /\ UNCHANGED <<running, thread, caller, position, transition, phase_currents, wear,
                   last_maintenance, maint, detVars, scoreVars, auxVars, storeVars>>

\* A variant of the maintenance that improves nothing
WearKept(w) == w

\* simulate_maintenance(): improvement = 0.7 + 0.2 * wear; wear *= 1 - improvement,
\* rounded down to a wear unit
WearAfterMaintenance(w) == (w * (3 * WearScale - 2 * w)) \div (10 * WearScale)

simulate_maintenance ==
    /\ maint.calls < MaxMaintenance
    /\ wear' = WearAfterMaintenance(wear)
    /\ last_maintenance' = ticks
    /\ maint' = [calls |-> maint.calls + 1, old_wear |-> wear, at |-> ticks]
    /\ UNCHANGED <<running, threads, thread, caller, position, transition, phase_currents, ticks,
                   detVars, scoreVars, auxVars, storeVars>>

\* A simulator that has run for some time and is stopped: wear is a multiple of
\* degradation_rate, up to the clamp.
WearStarts == {0, WearScale - degradation_rate, WearScale}

SimInitWith(w, started, b, cfg) ==
    /\ behavior = b
    /\ phase_cfg = cfg
    /\ last_fault = NoTick
    /\ position_transitions = <<>>
    /\ measured = NotMeasured
    /\ running = started
    /\ threads = IF started THEN <<"check">> ELSE <<>>
    /\ thread = IF started THEN 1 ELSE 0
    /\ caller = [pc |-> "idle", last |-> "none"]
    /\ position = "Normal"
    /\ transition = Idle
    /\ phase_currents = [p \in PhaseNames |-> 0]
    /\ wear = w
    /\ last_maintenance = 0 - 45 * 86400
    /\ ticks = 0
    /\ maint = [calls |-> 0, old_wear |-> 0, at |-> 0]

\* the shipped behaviour and thresholds
SimInitAt(w, started) == SimInitWith(w, started, ShippedBehavior, ShippedPhases)

SimInit == SimInitAt(0, FALSE)

Check == \E t \in 1..Len(threads) : LoopCheck(t)
Body == \E t \in 1..Len(threads) : LoopBody(t)
Sleep == \E t \in 1..Len(threads) : LoopSleep(t)

(***************************************************************************)
(* SimulationManager: one MachineSimulator per machine of MONITORING_PARAMS, *)
(* each with its own state, its own loop threads and its own DatabaseManager *)
(*   threads[t]  where loop thread t is: "check", "body", "sleep", "dead"    *)
(*   iterations  iterations of the loop this simulator has completed         *)
(*   errors      exceptions its loop has logged                              *)
(***************************************************************************)
MaxStarts == 2
MaxIterations == 1

\* MachineSimulator.__init__, as _load_simulators calls it
NewSimulator == [running |-> FALSE, threads |-> <<>>, thread |-> 0, iterations |-> 0,
                 errors |-> 0]

\* simulator.start()
MachineStarted(s) ==
    IF s.running THEN s
    ELSE [s EXCEPT !.running = TRUE, !.threads = Append(@, "check"),
                   !.thread = Len(s.threads) + 1]

\* simulator.stop(); the join changes nothing
MachineStopped(s) == IF ~s.running THEN s ELSE [s EXCEPT !.running = FALSE]

CanStart(s) == s.running \/ Len(s.threads) < MaxStarts

start_all ==
    /\ \A m \in MONITORING_PARAMS : CanStart(simulators[m])
    /\ simulators' = [m \in MONITORING_PARAMS |-> MachineStarted(simulators[m])]
    /\ UNCHANGED <<detVars, scoreVars, simVars, behavior, phase_cfg, last_fault, alerts,
                   query, workers, storeVars>>

stop_all ==
    /\ simulators' = [m \in MONITORING_PARAMS |-> MachineStopped(simulators[m])]
    /\ UNCHANGED <<detVars, scoreVars, simVars, behavior, phase_cfg, last_fault, alerts,
                   query, workers, storeVars>>

start_machine ==
    /\ \E m \in MONITORING_PARAMS :
        /\ CanStart(simulators[m])
        /\ simulators' = [simulators EXCEPT ![m] = MachineStarted(@)]
    /\ UNCHANGED <<detVars, scoreVars, simVars, behavior, phase_cfg, last_fault, alerts,
                   query, workers, storeVars>>

stop_machine ==
    /\ \E m \in MONITORING_PARAMS :
        simulators' = [simulators EXCEPT ![m] = MachineStopped(@)]
    /\ UNCHANGED <<detVars, scoreVars, simVars, behavior, phase_cfg, last_fault, alerts,
                   query, workers, storeVars>>

\* A variant in which the exception of one loop stops every simulator
TickRaisedStopsAll(sims, m, t) ==
    [o \in DOMAIN sims |->
        IF o = m
        THEN [sims[o] EXCEPT !.running = FALSE, !.threads[t] = "dead", !.errors = @ + 1]
        ELSE [sims[o] EXCEPT !.running = FALSE]]

\* except Exception as e: logger.error(...); self.running = False -- and the
\* thread function returns
TickRaised(sims, m, t) ==
    [sims EXCEPT ![m] = [@ EXCEPT !.running = FALSE, !.threads[t] = "dead",
                                  !.errors = @ + 1]]

\* while self.running, of thread t of machine m
MachineCheck(m, t) ==
    /\ simulators[m].threads[t] = "check"
    /\ simulators' = [simulators EXCEPT
                        ![m].threads[t] = IF simulators[m].running THEN "body" ELSE "dead"]

\* the body of an iteration up to the sleep, which raises or not
MachineBody(m, t) ==
    /\ simulators[m].threads[t] = "body"
    /\ \E raises \in BOOLEAN :
        simulators' = IF raises THEN TickRaised(simulators, m, t)
                      ELSE [simulators EXCEPT ![m].threads[t] = "sleep"]

\* time.sleep(refresh_rate)
MachineSleep(m, t) ==
    /\ simulators[m].threads[t] = "sleep"
    /\ simulators[m].iterations < MaxIterations
    /\ simulators' = [simulators EXCEPT ![m].threads[t] = "check",
                                        ![m].iterations = @ + 1]

MachineLoop ==
    /\ \E m \in MONITORING_PARAMS : \E t \in 1..Len(simulators[m].threads) :
        MachineCheck(m, t) \/ MachineBody(m, t) \/ MachineSleep(m, t)
    /\ UNCHANGED <<detVars, scoreVars, simVars, behavior, phase_cfg, last_fault, alerts,
                   query, workers, storeVars>>

(***************************************************************************)
(* Two callers of detect_phase_current_anomalies on one AnomalyDetector,    *)
(* each in its own thread (the callbacks of the application share the       *)
(* module-level detector).  A caller is "idle", at the "gate" (it found no  *)
(* model and has entered train_phase_current_model), "fitting" (past the    *)
(* gate and the row count, fitting scaler and forest) or in "detect".       *)
(***************************************************************************)
MaxWorkers == 2

\* if key not in self.models or key not in self.scalers
WorkerEnters(w) ==
    /\ workers[w] = "idle"
    /\ workers' = [workers EXCEPT
                     ![w] = IF HasModel(Self, PhaseKey(asset)) THEN "detect" ELSE "gate"]
    /\ UNCHANGED <<models, scalers, last_trained, files>>

\* train_phase_current_model up to the fit: the interval, the read, the row count;
\* False makes the detection return no_model
WorkerPassesGate(w) ==
    /\ workers[w] = "gate"
    /\ workers' = [workers EXCEPT
                     ![w] = IF \/ RecentlyTrained(Self, PhaseKey(asset), FALSE, now)
                             \/ rows.phase < min_samples
                          THEN "idle" ELSE "fitting"]
    /\ UNCHANGED <<models, scalers, last_trained, files>>

\* fit_transform, fit, the two assignments, last_trained, the two dumps
WorkerFits(w) ==
    /\ workers[w] = "fitting"
    /\ workers' = [workers EXCEPT ![w] = "detect"]
    /\ Becomes(Dump([Remember(Self, PhaseKey(asset), rows.phase)
                        EXCEPT !.last_trained = Put(@, PhaseKey(asset), now)],
                    PhaseKey(asset), rows.phase, PhaseFile(asset, "model"),
                    PhaseFile(asset, "scaler"), "none").D)

\* the detection itself, and the return
WorkerReturns(w) ==
    /\ workers[w] = "detect"
    /\ workers' = [workers EXCEPT ![w] = "idle"]
    /\ UNCHANGED <<models, scalers, last_trained, files>>

Worker ==
    /\ \E w \in 1..MaxWorkers :
        WorkerEnters(w) \/ WorkerPassesGate(w) \/ WorkerFits(w) \/ WorkerReturns(w)
    /\ UNCHANGED <<asset, rows, now, snapshots, res, scoreVars, simVars, behavior, phase_cfg,
                   last_fault, alerts, query, simulators, storeVars>>

(***************************************************************************)
(* The wear step of the loop against simulate_maintenance                    *)
(***************************************************************************)
\* steps: where the loop thread is inside lines 226-228 and where the caller of
\* simulate_maintenance() is inside lines 431-435, with what each has read
\*   tick   "idle", "adding" (line 226 has read the wear), "testing" (line 227),
\*          "clamping" (line 228), "done"
\*   maint  "idle", "improvement" (line 431 done), "old_wear" (line 432 done),
\*          "multiplying" (line 435 has read the wear), "done"
NoSteps ==
    [tick |-> "idle", maint |-> "idle", read |-> 0, improvement |-> 0, old_wear |-> 0,
     multiplicand |-> 0]

\* A simulator that has run for some time: wear a multiple of degradation_rate
StepWearStarts == WearStarts \cup {100 * degradation_rate, 500 * degradation_rate}

\* An iteration that finds no transition, starts none and injects no fault, up
\* to the read of accumulated_wear in line 226
TickReadsWear ==
    /\ thread # 0
    /\ threads[thread] = "body"
    /\ steps.tick = "idle"
    /\ ~transition.in_progress
    /\ \E saved \in BOOLEAN :
          measured' = Measured([transition |-> transition], phase_currents, saved)
    /\ steps' = [steps EXCEPT !.tick = "adding", !.read = wear]
    /\ UNCHANGED <<detVars, scoreVars, simVars, auxVars, position_transitions>>

\* line 226: the sum is stored
TickStoresWear ==
    /\ steps.tick = "adding"
    /\ wear' = steps.read + behavior.degradation_rate
    /\ steps' = [steps EXCEPT !.tick = "testing"]
    /\ UNCHANGED <<detVars, scoreVars, auxVars, position_transitions, measured, running,
                   threads, thread, caller, position, transition, phase_currents,
                   last_maintenance, ticks, maint>>

\* line 227: if accumulated_wear > 1.0
TickTestsWear ==
    /\ steps.tick = "testing"
    /\ IF wear > WearScale
       THEN /\ steps' = [steps EXCEPT !.tick = "clamping"]
            /\ threads' = threads
       ELSE /\ steps' = [steps EXCEPT !.tick = "done"]
            /\ threads' = [threads EXCEPT ![thread] = "sleep"]
    /\ UNCHANGED <<detVars, scoreVars, auxVars, position_transitions, measured, running,
                   thread, caller, position, transition, phase_currents, wear,
                   last_maintenance, ticks, maint>>

\* line 228: accumulated_wear = 1.0
TickClampsWear ==
    /\ steps.tick = "clamping"
    /\ wear' = WearScale
    /\ steps' = [steps EXCEPT !.tick = "done"]
    /\ threads' = [threads EXCEPT ![thread] = "sleep"]
    /\ UNCHANGED <<detVars, scoreVars, auxVars, position_transitions, measured, running,
                   thread, caller, position, transition, phase_currents,
                   last_maintenance, ticks, maint>>

\* line 431: improvement = 0.7 + 0.2 * accumulated_wear, in 1/(10 * WearScale)
MaintReadsImprovement ==
    /\ steps.maint = "idle"
    /\ steps' = [steps EXCEPT !.maint = "improvement",
                              !.improvement = 7 * WearScale + 2 * wear]
    /\ UNCHANGED <<detVars, scoreVars, simVars, auxVars, position_transitions, measured>>

\* line 432: old_wear = accumulated_wear
MaintReadsOldWear ==
    /\ steps.maint = "improvement"
    /\ steps' = [steps EXCEPT !.maint = "old_wear", !.old_wear = wear]
    /\ UNCHANGED <<detVars, scoreVars, simVars, auxVars, position_transitions, measured>>

\* line 435: accumulated_wear *= (1 - improvement), the read
MaintReadsWear ==
    /\ steps.maint = "old_wear"
    /\ steps' = [steps EXCEPT !.maint = "multiplying", !.multiplicand = wear]
    /\ UNCHANGED <<detVars, scoreVars, simVars, auxVars, position_transitions, measured>>

\* lines 435-436: the product is stored, rounded down to a wear unit, and
\* last_maintenance is set
MaintStoresWear ==
    /\ steps.maint = "multiplying"
    /\ wear' = (steps.multiplicand * (10 * WearScale - steps.improvement))
                    \div (10 * WearScale)
    /\ last_maintenance' = ticks
    /\ maint' = [calls |-> maint.calls + 1, old_wear |-> steps.old_wear, at |-> ticks]
    /\ steps' = [steps EXCEPT !.maint = "done"]
    /\ UNCHANGED <<detVars, scoreVars, auxVars, position_transitions, measured, running,
                   threads, thread, caller, position, transition, phase_currents, ticks>>

(***************************************************************************)
(* DatabaseManager: save_alert, acknowledge_alert, get_alerts                *)
(*   An alert's id is its position in alerts (INTEGER PRIMARY KEY           *)
(*   AUTOINCREMENT, and no statement deletes from the table).  A filter      *)
(*   that is not given (None) is <<>> for machine_id, "" for severity and    *)
(*   -1 for acknowledged.                                                    *)
(***************************************************************************)
MaxAlerts == 2

Query(op, id, machine, severity, ack, ret, rows_) ==
    [op |-> op, id |-> id, machine |-> machine, severity |-> severity, ack |-> ack,
     ret |-> ret, rows |-> rows_]
NoQuery == Query("none", 0, <<>>, "", -1, FALSE, {})

\* what the callers of save_alert pass: a spike and a voltage drop
AlertInputs ==
    {Alert(m, "current_spike", "critical", 750, 450) : m \in MONITORING_PARAMS}
    \cup {Alert(m, "voltage_drop", "warning", 213, 220) : m \in MONITORING_PARAMS}

\* A variant that tests the filters by truth value: acknowledged = 0 filters nothing
MatchingTruthy(table, machine, severity, ack) ==
    {i \in 1..Len(table) :
        /\ machine # <<>> => table[i].machine_id = machine
        /\ severity # "" => table[i].severity = severity
        /\ ack > 0 => table[i].acknowledged = ack}

\* get_alerts: WHERE 1=1 AND machine_id = ? AND severity = ? AND acknowledged = ?,
\* each condition only when its filter is given ("if machine_id", "if severity",
\* "if acknowledged is not None"); LIMIT 100 is more than the table holds here
Matching(table, machine, severity, ack) ==
    {i \in 1..Len(table) :
        /\ machine # <<>> => table[i].machine_id = machine
        /\ severity # "" => table[i].severity = severity
        /\ ack # -1 => table[i].acknowledged = ack}

\* UPDATE alerts SET acknowledged = 1 WHERE id = ?
Acknowledged(table, id) ==
    [i \in 1..Len(table) |->
        IF i = id THEN [table[i] EXCEPT !.acknowledged = 1] ELSE table[i]]

\* save_alert(...): True, or False on a sqlite3.Error
SaveAlert ==
    /\ Len(alerts) < MaxAlerts
    /\ \E a \in AlertInputs, stored \in BOOLEAN :
        /\ alerts' = save_alert(alerts, <<a>>, stored)
        /\ query' = Query("save_alert", 0, a.machine_id, a.severity, -1, stored, {})
    /\ UNCHANGED <<detVars, scoreVars, simVars, behavior, phase_cfg, last_fault, simulators,
                   workers, storeVars>>

\* acknowledge_alert(alert_id), of an id in the table or not
AcknowledgeAlert ==
    /\ \E id \in 1..(MaxAlerts + 1), done \in BOOLEAN :
        /\ alerts' = IF done THEN Acknowledged(alerts, id) ELSE alerts
        /\ query' = Query("acknowledge_alert", id, <<>>, "", -1, done, {})
    /\ UNCHANGED <<detVars, scoreVars, simVars, behavior, phase_cfg, last_fault, simulators,
                   workers, storeVars>>

\* get_alerts(machine_id, severity=..., acknowledged=...): the ids of the rows of
\* the frame; an empty frame when the query fails
GetAlerts ==
    /\ \E machine \in {<<>>} \cup MONITORING_PARAMS, severity \in {"", "critical"},
          ack \in {-1, 0, 1}, done \in BOOLEAN :
        query' = Query("get_alerts", 0, machine, severity, ack, done,
                       IF done THEN Matching(alerts, machine, severity, ack) ELSE {})
    /\ UNCHANGED <<detVars, scoreVars, simVars, behavior, phase_cfg, last_fault, alerts,
                   simulators, workers, storeVars>>

(***************************************************************************)
(* Specifications                                                          *)
(***************************************************************************)
\* the parts a specification leaves at rest
DetIdle ==
    /\ asset = VIM_11_21
    /\ rows = [phase |-> 0, ctrl |-> [c \in ControllerSet |-> 0],
               trans |-> [t \in TransitionTypeSet |-> 0]]
    /\ now = 0
    /\ models = EmptyDict
    /\ scalers = EmptyDict
    /\ last_trained = EmptyDict
    /\ files = EmptyDict
    /\ snapshots = 0
    /\ res = NoResult

ScoreIdle == sc_in = <<0, 0, 0>> /\ sc_out = NoScores

DbIdle == alerts = <<>> /\ query = NoQuery
FleetIdle == simulators = [m \in MONITORING_PARAMS |-> NewSimulator]
WorkersIdle == workers = [w \in 1..MaxWorkers |-> "idle"]
StepsIdle == steps = NoSteps

\* the detector, with the simulator at rest: its three training methods
DetectorInit == DetInit /\ ScoreIdle /\ SimInit /\ DbIdle /\ FleetIdle /\ WorkersIdle /\ StepsIdle
TrainNext == TrainPhase \/ TrainController \/ TrainTransition \/ Return \/ AdvanceClock
SpecTrain == DetectorInit /\ [][TrainNext]_vars

\* its detections, which train on demand
DetectInit == DetInit /\ ScoreIdle /\ SimInit /\ DbIdle /\ FleetIdle /\ WorkersIdle /\ StepsIdle
DetectNext ==
    \/ DetectPhase
    \/ DetectController
    \/ DetectControllerAll
    \/ DetectTransition
    \/ DetectTransitionAll
    \/ Return
    \/ AdvanceClock
SpecDetect == DetectInit /\ [][DetectNext]_vars

\* training, and a new detector that loads what training left on disk
LoadInit == DetInit /\ ScoreIdle /\ SimInit /\ DbIdle /\ FleetIdle /\ WorkersIdle /\ StepsIdle
LoadNext == TrainPhase \/ TrainController \/ TrainTransition \/ Restart \/ Return
SpecLoad == LoadInit /\ [][LoadNext]_vars

\* the health status, computed from the three detections
HealthInit == DetInit /\ ScoreIdle /\ SimInit /\ DbIdle /\ FleetIdle /\ WorkersIdle /\ StepsIdle
HealthNext == Health \/ Return \/ AdvanceClock
SpecHealth == HealthInit /\ [][HealthNext]_vars

\* the health scores over every combination of anomaly counts
ScoringInit == DetIdle /\ ScoreInit /\ SimInit /\ DbIdle /\ FleetIdle /\ WorkersIdle /\ StepsIdle
SpecScore == ScoringInit /\ [][Score]_vars

\* one simulator, the caller of start() and stop(), and its loop threads
Init ==
    /\ DetIdle /\ ScoreIdle /\ DbIdle /\ FleetIdle /\ WorkersIdle /\ StepsIdle
    /\ SimInitWith(0, FALSE, FaultFreeBehavior, ShippedPhases)
Next == Start \/ Stop \/ JoinReturns \/ Check \/ Body \/ Sleep
Spec == Init /\ [][Next]_vars

\* one started simulator, its loop and the caller of simulate_maintenance()
WearInit ==
    /\ DetIdle /\ ScoreIdle /\ DbIdle /\ FleetIdle /\ WorkersIdle /\ StepsIdle
    /\ \E w \in WearStarts : SimInitWith(w, TRUE, FaultFreeBehavior, ShippedPhases)
WearNext == Check \/ Body \/ Sleep \/ simulate_maintenance
SpecWear == WearInit /\ [][WearNext]_vars

\* one started, unworn simulator and its loop: as shipped or with wear and faults
\* switched off, over the shipped phase thresholds and two other maxima
TicksInit ==
    /\ DetIdle /\ ScoreIdle /\ DbIdle /\ FleetIdle /\ WorkersIdle /\ StepsIdle
    /\ \E b \in {ShippedBehavior, QuietBehavior}, cfg \in PhaseConfigs :
          SimInitWith(0, TRUE, b, cfg)
TicksNext == Check \/ Body \/ Sleep
SpecTicks == TicksInit /\ [][TicksNext]_vars

\* one started simulator at the wear step of an iteration, and a caller inside
\* simulate_maintenance(), every interleaving of their reads and stores
StepsInit ==
    /\ DetIdle /\ ScoreIdle /\ DbIdle /\ FleetIdle /\ WorkersIdle /\ StepsIdle
    /\ \E w \in StepWearStarts : SimInitWith(w, TRUE, FaultFreeBehavior, ShippedPhases)
StepsNext ==
    \/ Check \/ TickReadsWear \/ TickStoresWear \/ TickTestsWear \/ TickClampsWear
    \/ MaintReadsImprovement \/ MaintReadsOldWear \/ MaintReadsWear \/ MaintStoresWear
SpecSteps == StepsInit /\ [][StepsNext]_vars

\* the alerts table and the callers of its three methods
AlertsInit == DetIdle /\ ScoreIdle /\ SimInit /\ DbIdle /\ FleetIdle /\ WorkersIdle /\ StepsIdle
AlertsNext == SaveAlert \/ AcknowledgeAlert \/ GetAlerts
SpecAlerts == AlertsInit /\ [][AlertsNext]_vars

\* the manager's simulators, started, stopped and looping
FleetInit == DetIdle /\ ScoreIdle /\ SimInit /\ DbIdle /\ FleetIdle /\ WorkersIdle /\ StepsIdle
FleetNext == start_all \/ stop_all \/ start_machine \/ stop_machine \/ MachineLoop
SpecFleet == FleetInit /\ [][FleetNext]_vars

\* one detector, its callers in their threads, the clock
WorkersInit == DetInit /\ ScoreIdle /\ SimInit /\ DbIdle /\ FleetIdle /\ WorkersIdle /\ StepsIdle
WorkersNext == Worker \/ AdvanceClock
SpecWorkers == WorkersInit /\ [][WorkersNext]_vars

(***************************************************************************)
(* Properties                                                              *)
(***************************************************************************)
\* 100 minus a penalty of k points per anomaly, the penalty capped at 100
Penalised(count, k) == IF count * k >= 100 THEN 0 ELSE 100 - count * k

\* C1: for anomaly counts p, c, t the computed scores are
\* phase_health = 100 - min(100, 10p), controller_health = 100 - min(100, 15c),
\* mechanical_health = 100 - min(100, 20t), electrical_health = 0.6 phase + 0.4
\* controller and overall_health = 0.7 electrical + 0.3 mechanical, and all five
\* lie in [0, 100] (electrical10 in tenths, overall100 in hundredths).
C1_HealthFormula ==
    sc_out # NoScores =>
        /\ sc_out.phase = Penalised(sc_in[1], 10)
        /\ sc_out.controller = Penalised(sc_in[2], 15)
        /\ sc_out.mechanical = Penalised(sc_in[3], 20)
        /\ sc_out.electrical10 = 6 * sc_out.phase + 4 * sc_out.controller
        /\ sc_out.overall100 = 7 * sc_out.electrical10 + 30 * sc_out.mechanical
        /\ sc_out.phase \in 0..100
        /\ sc_out.controller \in 0..100
        /\ sc_out.mechanical \in 0..100
        /\ sc_out.electrical10 \in 0..1000
        /\ sc_out.overall100 \in 0..10000

\* scores computed for a phase count past the cap and two uncapped counts
C1_Witness ==
    /\ sc_out # NoScores
    /\ sc_in[1] * 10 > 100
    /\ sc_in[2] = 1
    /\ sc_in[3] = 2
    /\ sc_out.overall100 = 7 * (4 * 85) + 30 * 60

\* the entries of a result's anomaly list that have the given type
OfType(anomalies, type) == SelectSeq(anomalies, LAMBDA a : a.type = type)
Statuses(ran) == {ran[i] : i \in 1..Len(ran)}

\* C2: detect_transition_anomalies for one direction, with model and scaler
\* present and at least 5 recent transitions, returns status ok; a transition
\* lasting exactly nominal * (1 + increase_warning/100) is not reported as a long
\* transition, a longer one is reported with type long_transition and severity
\* warning, or critical above nominal * (1 + increase_critical/100).
C2_TransitionThresholds ==
    (/\ res.op = "detect_transition_anomalies"
     /\ res.call.sub \in TransitionTypeSet
     /\ res.call.fault = NoFault
     /\ HasModel(Self, TransitionKey(asset, res.call.sub))
     /\ res.call.n >= MinRecentTransitions)
    => /\ res.status = "ok"
       /\ \A i \in 1..Len(res.call.data.durs) :
            LET d == res.call.data.durs[i]
                long == OfType(res.anomalies, "long_transition")
            IN  /\ d * 100 <= NominalTransitionTime * (100 + increase_warning)
                     => long = <<>>
                /\ (/\ d * 100 > NominalTransitionTime * (100 + increase_warning)
                    /\ d * 100 <= NominalTransitionTime * (100 + increase_critical)
                    /\ i \notin res.call.data.outliers)
                     => long = <<Anomaly("long_transition", "warning")>>
                /\ (/\ d * 100 > NominalTransitionTime * (100 + increase_critical)
                    /\ i \notin res.call.data.outliers)
                     => long = <<Anomaly("long_transition", "critical")>>

\* C3: get_machine_health_status returns an error result (status error,
\* health_score 0) whenever a detection it ran ended with status error, the
\* per-controller and per-direction ones included; when every detection ended in
\* ok, no_model or insufficient_data it returns ok.
C3_HealthAbortsOnError ==
    res.op = "get_machine_health_status"
    => /\ "error" \in Statuses(res.ran)
            => res.health.status = "error" /\ res.health.health_score = 0
       /\ (\A st \in Statuses(res.ran) : Completed(st)) => res.health.status = "ok"

\* C5: a detection for one controller or one direction that has no model and
\* scaler for its key after its training attempt returns no_model with an empty
\* anomaly list, never error, whether the training returned False or returned
\* True without fitting that key.
C5_NoModelNotError ==
    (/\ res.op \in {"detect_controller_anomalies", "detect_transition_anomalies"}
     /\ res.call.sub # <<>>
     /\ res.call.fault.stage # "recent_read"
     /\ ~HasModel(Self, IF res.op = "detect_controller_anomalies"
                        THEN ControllerKey(asset, res.call.sub)
                        ELSE TransitionKey(asset, res.call.sub)))
    => res.status = "no_model" /\ res.anomalies = <<>>

\* C4: start() on a running simulator and stop() on a stopped one change
\* nothing, and at most one simulation-loop thread of the simulator is alive at
\* any time, in every interleaving of start(), stop() and the loop.
C4_OneLoopThread ==
    [][/\ Cardinality(AliveThreads') <= 1
       /\ (caller'.last \in {"start_ignored", "stop_ignored"} /\ caller' # caller)
            => UNCHANGED <<running, threads, thread, position, transition, phase_currents, wear,
                           last_maintenance, ticks, maint>>]_vars

\* C6: after a new AnomalyDetector has loaded the model directory, every model
\* and every scaler that training saved for key K is in models, or scalers, under
\* exactly K, the key the detect_* methods look up.
C6_LoadRestoresKeys ==
    res.op = "__init__"
    => \A f \in DOMAIN files :
         /\ IsModelFile(f)
              => files[f].key \in DOMAIN models /\ models[files[f].key] = files[f]
         /\ IsScalerFile(f)
              => files[f].key \in DOMAIN scalers /\ scalers[files[f].key] = files[f]

TrainOps == {"train_phase_current_model", "train_controller_model",
             "train_transition_model"}

\* C7: a train_* call that returns False leaves models, scalers and
\* last_trained exactly as they were before the call.
C7_TrainAllOrNothing ==
    [][(res = NoResult /\ res'.op \in TrainOps /\ ~res'.ret)
         => /\ models' = models
            /\ scalers' = scalers
            /\ last_trained' = last_trained]_vars

\* the rows of the training window of the family a train_* call is about
FamilyRows(op) ==
    IF op = "train_phase_current_model" THEN rows.phase
    ELSE IF op = "train_controller_model" THEN rows.ctrl[ctrl_1] + rows.ctrl[ctrl_2]
    ELSE rows.trans[normal_to_reverse] + rows.trans[reverse_to_normal]
FamilyMinimum(op) == IF op = "train_transition_model" THEN MinTransitionRows ELSE min_samples

\* C10: a train_* call over a training window with fewer rows than the family's
\* minimum (min_samples for phase currents and controllers, 30 for transitions)
\* returns False and leaves models, scalers, last_trained and the model files
\* unchanged, so that calling it again gives the same result and state.
C10_BelowMinimumNoOp ==
    [][(/\ res = NoResult
        /\ res'.op \in TrainOps
        /\ FamilyRows(res'.op) < FamilyMinimum(res'.op))
         => /\ ~res'.ret
            /\ models' = models
            /\ scalers' = scalers
            /\ last_trained' = last_trained
            /\ files' = files]_vars

\* a forced phase-current training over too few rows has returned False, in a
\* detector that holds models of another family
C10_Witness ==
    /\ res.op = "train_phase_current_model"
    /\ res.call.force
    /\ res.call.fault = NoFault
    /\ ~res.ret
    /\ rows.phase < min_samples
    /\ models # EmptyDict
    /\ files # EmptyDict

C9_MaintenanceFormula ==
    [][maint'.calls # maint.calls
         => /\ 10 * WearScale * wear'
                 <= wear * (10 * WearScale - (7 * WearScale + 2 * wear))
            /\ wear * (10 * WearScale - (7 * WearScale + 2 * wear))
                 < 10 * WearScale * (wear' + 1)
            /\ (wear > 0 => wear' < wear)
            /\ (wear = 0 => wear' = 0)
            /\ last_maintenance' = ticks]_vars

\* a maintenance on a fully worn simulator that has ticked has just returned
C9_Witness ==
    /\ maint.calls = 1
    /\ maint.old_wear = WearScale
    /\ wear = WearScale \div 10
    /\ ticks > 0
    /\ last_maintenance = ticks

\* the last_trained key of the family a train_* call is about
FamilyKey(op) ==
    IF op = "train_phase_current_model" THEN PhaseKey(asset)
    ELSE IF op = "train_controller_model" THEN ControllerBaseKey(asset)
    ELSE TransitionBaseKey(asset)

\* C11 (as amended): a train_* call whose family key has a last_trained entry,
\* made without force less than model_update_interval hours after that entry,
\* returns False without changing models, scalers or last_trained; a call fits
\* only when the key was never trained, or force is true, or at least
\* model_update_interval hours have passed.
C11_RetrainGate ==
    [][(/\ res = NoResult
        /\ res'.op \in TrainOps
        /\ FamilyKey(res'.op) \in DOMAIN last_trained
        /\ ~res'.call.force
        /\ now - last_trained[FamilyKey(res'.op)] < model_update_interval)
         => /\ ~res'.ret
            /\ models' = models
            /\ scalers' = scalers
            /\ last_trained' = last_trained]_vars

\* a phase-current training without force and without a failure, over enough
\* rows, half an interval after the training that succeeded, has returned False
C11_Witness ==
    /\ res.op = "train_phase_current_model"
    /\ ~res.call.force
    /\ res.call.fault = NoFault
    /\ rows.phase >= min_samples
    /\ PhaseKey(asset) \in DOMAIN last_trained
    /\ now - last_trained[PhaseKey(asset)] = ClockStep
    /\ ~res.ret

\* C11 as stated: only an elapsed time that exceeds model_update_interval lets
\* a call without force fit a key that has a last_trained entry; at exactly
\* model_update_interval hours the call returns False and changes nothing.
C11_AsStated ==
    [][(/\ res = NoResult
        /\ res'.op \in TrainOps
        /\ FamilyKey(res'.op) \in DOMAIN last_trained
        /\ ~res'.call.force
        /\ now - last_trained[FamilyKey(res'.op)] <= model_update_interval)
         => /\ ~res'.ret
            /\ models' = models
            /\ scalers' = scalers
            /\ last_trained' = last_trained]_vars

\* C13: a phase-current detection that ends without a model for the asset
\* still evaluates the imbalance rule on the recent samples: with at least 10
\* recent rows of which the first holds the phase currents (5.00, 5.00, 0.00),
\* it reports an imbalance anomaly.
C13_RulesWithoutModel ==
    (/\ res.op = "detect_phase_current_anomalies"
     /\ res.call.fault = NoFault
     /\ ~HasModel(Self, PhaseKey(asset))
     /\ res.call.n >= MinRecentRows
     /\ res.call.data.head = <<<<500, 500, 0>>>>)
    => OfType(res.anomalies, "imbalance") # <<>>

\* C14: detect_phase_current_anomalies on an asset without a phase-current
\* model, over a store with fewer than min_samples phase-current rows, returns
\* status no_model and an empty anomaly list, whatever the recent rows hold.
C14_NoModelBelowMinimum ==
    [][(/\ res = NoResult
        /\ res'.op = "detect_phase_current_anomalies"
        /\ ~HasModel(Self, PhaseKey(asset))
        /\ rows.phase < min_samples)
         => /\ res'.status = "no_model"
            /\ res'.anomalies = <<>>]_vars

\* a detection over a caller's frame with an imbalanced row, on a store one row
\* short of min_samples, has returned no_model
C14_Witness ==
    /\ res.op = "detect_phase_current_anomalies"
    /\ res.call.given
    /\ res.call.n >= MinRecentRows
    /\ res.call.data.head = <<<<500, 500, 0>>>>
    /\ rows.phase = min_samples - 1
    /\ res.status = "no_model"
    /\ res.anomalies = <<>>

\* the exceptions that reach get_machine_health_status itself
HealthRaises(fault) == fault.stage \in PostStages \cup {"raise"}

\* C19: get_machine_health_status always returns a result (status ok or
\* error) to its caller, and a call in which a detection, the scoring, the
\* recommendation lookup, the next-maintenance calculation or the snapshot
\* persistence raises returns status error with health_score 0, unless an
\* earlier detection had already made it return that.
C19_HealthNeverRaises ==
    res.op = "get_machine_health_status"
    => /\ res.health.status \in {"ok", "error"}
       /\ HealthRaises(res.call.fault)
            => res.health.status = "error" /\ res.health.health_score = 0

\* a call whose three detections completed with anomalies to count and whose
\* next-maintenance calculation raised has returned the error result
C19_Witness ==
    /\ res.op = "get_machine_health_status"
    /\ res.call.fault.stage = "next_maintenance"
    /\ Len(res.ran) >= 3
    /\ \A st \in Statuses(res.ran) : Completed(st)
    /\ "ok" \in Statuses(res.ran)
    /\ res.health.status = "error"
    /\ res.health.health_score = 0

\* the samples among the 20 most recent that are over the imbalance rule as the
\* claim states it: max > 0.5 and 100 * (max - min) / max > imbalance_warning
Unbalanced(call) ==
    {i \in 1..Min(Len(call.data.head), Min(20, call.n)) :
        \E mx, mn \in {call.data.head[i][k] : k \in 1..3} :
            /\ \A k \in 1..3 : mn <= call.data.head[i][k] /\ call.data.head[i][k] <= mx
            /\ mx > 50
            /\ 100 * (mx - mn) > 10 * mx}

\* C18: detect_phase_current_anomalies with a model present and at least 10
\* recent samples reports an imbalance anomaly for a sample among the 20 most
\* recent if and only if max > 0.5 and 100 * (max - min) / max > 10: it reports
\* as many imbalance anomalies as there are such samples.
C18_ImbalanceRule ==
    (/\ res.op = "detect_phase_current_anomalies"
     /\ res.call.fault = NoFault
     /\ HasModel(Self, PhaseKey(asset))
     /\ res.call.n >= MinRecentRows)
    => Len(OfType(res.anomalies, "imbalance")) = Cardinality(Unbalanced(res.call))

\* C15: with fault probability 0 and the wear held at 0, after any number of
\* ticks -- idle, in a transition, completing one -- no alert has been saved and
\* each of phase_a, phase_b, phase_c as persisted by the tick lies within the
\* [min, max] configured for the phase.
C15_QuietTicks ==
    (behavior.fault_probability = 0 /\ behavior.degradation_rate = 0 /\ wear = 0)
    => /\ alerts = <<>>
       /\ \A p \in PhaseNames :
            phase_cfg.min <= phase_currents[p] /\ phase_currents[p] <= phase_cfg.max

\* a quiet simulator has gone through a whole transition, with the largest draw
\* for phase_a, and is idle again
C15_Witness ==
    /\ behavior = QuietBehavior
    /\ wear = 0
    /\ position = "Reversa"
    /\ ~transition.in_progress
    /\ ticks >= nominal_time
    /\ alerts = <<>>

\* the tick of a loop thread that injected a fault
Injected(kind) ==
    /\ last_fault'.count = last_fault.count + 1
    /\ last_fault'.kind = kind

Unflagged(a) == [a EXCEPT !.acknowledged = 0]

\* C17: save_alert creates an alert with acknowledged = 0; acknowledge_alert(id)
\* sets acknowledged = 1 on the alert with that id and changes no other field of
\* it and no other alert; an acknowledged alert is in no get_alerts(acknowledged=0)
\* result; no operation sets the flag back to 0, changes another field of an
\* alert or deletes an alert.
C17_AcknowledgeRoundTrip ==
    /\ [](query.op = "get_alerts" /\ query.ack = 0
            => \A i \in query.rows : alerts[i].acknowledged = 0)
    /\ [][/\ (query'.op = "save_alert" /\ alerts' # alerts)
               => /\ Len(alerts') = Len(alerts) + 1
                  /\ alerts'[Len(alerts')].acknowledged = 0
          /\ (query'.op = "acknowledge_alert" /\ query'.ret)
               => /\ Len(alerts') = Len(alerts)
                  /\ \A i \in 1..Len(alerts) :
                       /\ Unflagged(alerts'[i]) = Unflagged(alerts[i])
                       /\ i = query'.id => alerts'[i].acknowledged = 1
                       /\ i # query'.id => alerts'[i] = alerts[i]
          /\ Len(alerts') >= Len(alerts)
          /\ \A i \in 1..Len(alerts) :
               /\ Unflagged(alerts'[i]) = Unflagged(alerts[i])
               /\ alerts[i].acknowledged = 1 => alerts'[i].acknowledged = 1]_vars

\* of two alerts the first was acknowledged, and get_alerts(acknowledged=0) has
\* returned the second only
C17_Witness ==
    /\ Len(alerts) = 2
    /\ alerts[1].acknowledged = 1
    /\ alerts[2].acknowledged = 0
    /\ query.op = "get_alerts"
    /\ query.machine = <<>>
    /\ query.ack = 0
    /\ query.ret
    /\ query.rows = {2}

\* C20: when an iteration of one machine's loop raises, that loop ends with the
\* machine's running flag False, and the running flag, the threads and the
\* progress of every other machine's simulator are as they were.
C20_LoopFaultIsolated ==
    [][\A m \in MONITORING_PARAMS :
          simulators'[m].errors > simulators[m].errors
          => /\ ~simulators'[m].running
             /\ \E t \in 1..Len(simulators[m].threads) :
                   simulators[m].threads[t] = "body" /\ simulators'[m].threads[t] = "dead"
             /\ \A o \in MONITORING_PARAMS \ {m} : simulators'[o] = simulators[o]]_vars

\* one machine's loop has raised in its first iteration and the other machine,
\* still running, has completed an iteration and is in its next
C20_Witness ==
    /\ simulators[VIM_11_21].errors = 1
    /\ simulators[VIM_11_21].iterations = 0
    /\ ~simulators[VIM_11_21].running
    /\ simulators[SP_13_23].running
    /\ simulators[SP_13_23].errors = 0
    /\ simulators[SP_13_23].iterations = 1
    /\ simulators[SP_13_23].threads = <<"body">>

\* C12: two concurrent detections of the same asset's phase currents that both
\* found no model are never both training that key.
C12_TrainingSerialized ==
    \A v, w \in 1..MaxWorkers : v # w => ~(workers[v] = "fitting" /\ workers[w] = "fitting")

\* C25: detect_phase_current_anomalies with a model present and at least 50
\* recent samples returns status ok and reports one high_variance anomaly for
\* every rolling window of 10 samples whose variance is over variance_warning,
\* the last window of the frame included.
C25_HighVarianceWindows ==
    (/\ res.op = "detect_phase_current_anomalies"
     /\ res.call.fault = NoFault
     /\ HasModel(Self, PhaseKey(asset))
     /\ res.call.n >= VarianceMinRows)
    => /\ res.status = "ok"
       /\ Len(OfType(res.anomalies, "high_variance")) = Cardinality(res.call.data.hv)

\* the samples among the 20 most recent whose voltage is more than dropout_warning
\* below the nominal voltage of the controller
Dropped(call) ==
    {i \in 1..Min(Len(call.data.volts), Min(20, call.n)) :
        ctrl_nominal - 10 * call.data.volts[i] > 10 * dropout_warning}

\* C23: detect_controller_anomalies for one controller, with its model present
\* and at least 10 recent samples, reports a voltage_drop anomaly for each of the
\* 20 most recent samples whose voltage is more than dropout_warning (2 V) below
\* the nominal 24 V, critical when it is more than dropout_critical (4 V) below.
C23_VoltageDropRule ==
    (/\ res.op = "detect_controller_anomalies"
     /\ res.call.sub \in ControllerSet
     /\ res.call.fault = NoFault
     /\ HasModel(Self, ControllerKey(asset, res.call.sub))
     /\ res.call.n >= MinRecentRows)
    => LET drops == OfType(res.anomalies, "voltage_drop")
       IN  /\ Len(drops) = Cardinality(Dropped(res.call))
           /\ \A i \in Dropped(res.call) :
                \E k \in 1..Len(drops) :
                    drops[k].severity =
                        IF ctrl_nominal - 10 * res.call.data.volts[i] > 10 * dropout_critical
                        THEN "critical" ELSE "warning"

\* the key under which the family a detection looks at records its training
TrainedKey(op) ==
    IF op = "detect_phase_current_anomalies" THEN PhaseKey(asset)
    ELSE IF op = "detect_controller_anomalies" THEN ControllerBaseKey(asset)
    ELSE TransitionBaseKey(asset)

\* C24: a detection call for a family whose last training is more than
\* model_update_interval (24 h) old trains that family again: it leaves
\* last_trained of the family at the time of the call.
C24_StaleModelRetrained ==
    [][(/\ res = NoResult
        /\ res'.op \in {"detect_phase_current_anomalies", "detect_controller_anomalies",
                        "detect_transition_anomalies"}
        /\ res'.call.fault = NoFault
        /\ TrainedKey(res'.op) \in DOMAIN last_trained
        /\ now - last_trained[TrainedKey(res'.op)] > model_update_interval)
         => last_trained'[TrainedKey(res'.op)] = now]_vars

\* the condition level the claim gives for an overall health, in hundredths
LevelFor(overall100) ==
    IF overall100 < 70 * 100 THEN "high"
    ELSE IF overall100 < 85 * 100 THEN "medium" ELSE "low"

\* C30 (as amended): a get_machine_health_status call that returns ok appends one
\* health snapshot when the INSERT of save_health_status succeeds and none when
\* it fails with a database error; a call that returns error appends none; the
\* condition level of an ok result is high below 70, medium from 70 to below 85
\* and low from 85.
C30_SnapshotPerOkResult ==
    [][(res = NoResult /\ res'.op = "get_machine_health_status")
         => /\ res'.health.status = "ok"
                 => /\ snapshots' = snapshots
                                    + (IF res'.call.fault.stage = "save_snapshot"
                                       THEN 0 ELSE 1)
                    /\ res'.health.condition_level
                           = LevelFor(res'.health.scores.overall100)
            /\ res'.health.status = "error" => snapshots' = snapshots]_vars

\* C30 as stated: every call that returns ok appends exactly one snapshot
C30_AsStated ==
    [][(res = NoResult /\ res'.op = "get_machine_health_status")
         => /\ res'.health.status = "ok" => snapshots' = snapshots + 1
            /\ res'.health.status = "error" => snapshots' = snapshots]_vars

\* a call has returned ok with a medium condition level and its snapshot is stored
C30_Witness ==
    /\ res.op = "get_machine_health_status"
    /\ res.health.status = "ok"
    /\ res.health.condition_level = "medium"
    /\ res.call.fault = NoFault
    /\ snapshots = 1

C26_SpikeIsPeak ==
    [][position' # position
         => /\ Len(position_transitions') <= Len(position_transitions) + 1
            /\ Len(position_transitions') = Len(position_transitions) + 1
                 => position_transitions'[Len(position_transitions')].current_spike
                        >= measured.peak]_vars

\* C22: an iteration of the loop that finds no transition in progress, starts
\* none and injects no fault leaves every phase current within
\* [min, min * (1 + 0.1 * wear_factor)], so that what a fault did in an earlier
\* idle tick is not there any more.  (The controller voltages are not part of
\* the state; the statement is checked for the phase currents.)
C22_IdleTickResets ==
    [][(/\ \E t \in 1..Len(threads) : threads[t] = "body" /\ threads'[t] = "sleep"
        /\ ~transition.in_progress
        /\ ~transition'.in_progress
        /\ last_fault'.count = last_fault.count)
          => \A p \in PhaseNames :
                /\ phase_currents'[p] >= phase_cfg.min
                /\ phase_currents'[p] * 10 * WearScale
                      <= phase_cfg.min * (11 * WearScale + wear)]_vars

\* C28: an iteration of the loop never ends the loop, whichever fault it
\* injects and whether the simulator is idle or in a transition: the thread
\* goes on to its sleep and running stays as it was.
C28_FaultsNeverRaise ==
    [][\A t \in 1..Len(threads) :
          threads[t] = "body" => threads'[t] = "sleep" /\ running' = running]_vars

\* A completion whose INSERT into position_transitions failed: the transition
\* is over and the table has no new row
CompletionUnrecorded ==
    /\ transition.in_progress
    /\ ~transition'.in_progress
    /\ position_transitions' = position_transitions

\* C21: an iteration of the loop in which a store write fails (the row of a
\* completed transition, or the samples of _save_measurements) does not stop
\* the loop: running stays as it was, the wear step is taken and the thread
\* goes on to its sleep, from which the following iterations proceed.
C21_FailedWriteTolerated ==
    [][\A t \in 1..Len(threads) :
          (/\ threads[t] = "body"
           /\ threads'[t] # "body"
           /\ \/ CompletionUnrecorded
              \/ threads'[t] = "sleep" /\ measured'.sample = "failed")
            => /\ running' = running
               /\ threads'[t] = "sleep"
               /\ wear' = WearAfterTick(wear)]_vars

\* C29: once the wear step of an iteration and a simulate_maintenance() that
\* ran against it have both completed, the wear is at most
\* old_wear * (1 - improvement) + degradation_rate, old_wear and improvement
\* being what simulate_maintenance read.
C29_MaintenanceNotLost ==
    (steps.tick = "done" /\ steps.maint = "done")
       => wear * 10 * WearScale
             <= steps.old_wear * (10 * WearScale - steps.improvement)
                  + behavior.degradation_rate * 10 * WearScale

====
